---- MODULE Spec2Model ----
(***************************************************************************)
(* Model of the OzonAnal order analyzers:                                  *)
(*   src/enhanced_analyzer.py  EnhancedOrderAnalyzer                       *)
(*   src/utils.py              OrderAnalyzer                               *)
(*                                                                         *)
(* A session loads one dataset (a pandas DataFrame: a set of columns and   *)
(* a sequence of rows), constructs an analyzer over it (_prepare_data) and *)
(* then calls metrics operations, each of which returns a value or raises. *)
(*                                                                         *)
(* Conventions                                                             *)
(*   - Column labels are the English keys below; the source's labels are   *)
(*     given next to COLUMNS.                                              *)
(*   - Money is an integer number of currency units (the datasets of the   *)
(*     model hold whole amounts); a weight is an integer number of tenths  *)
(*     of a kilogram.                                                      *)
(*   - A timestamp is an integer number of ticks, TicksPerDay ticks a day. *)
(*   - A nullable parsed value is [null |-> BOOLEAN, v |-> Int]: NaN / NaT *)
(*     is the value with null = TRUE.                                      *)
(*   - An order number, product name, SKU or region is such a value too,   *)
(*     v being a code whose order is the order of the strings.             *)
(*   - A float result that need not be an integer is a fraction            *)
(*     [n |-> Int, d |-> Nat]; 0/0 is NaN and x/0 is +-inf, as in numpy.   *)
(*   - The value a call hands back is [raised |-> "none", value |-> v], or *)
(*     [raised |-> <exception>, value |-> <key>] when the call raises.     *)
(***************************************************************************)
EXTENDS Integers, Sequences, FiniteSets, TLC

VARIABLES
    raw,          \* the caller's DataFrame: [cols, rows]
    pc,           \* "loaded" before construction, "ready" after it
    analyzer,     \* "none" | "Enhanced" | "Order": which class was constructed
    original_df,  \* EnhancedOrderAnalyzer.original_df (df.copy())
    df,           \* self.df: the normalized record set
    op,           \* the last operation called
    args,         \* the argument the last operation was called with, NaN if none
    result,       \* what the last operation returned or raised
    quicksort     \* what the sort of the numpy build does with equal keys

vars == <<raw, pc, analyzer, original_df, df, op, args, result, quicksort>>

----------------------------------------------------------------------------
(* Bounds of the model *)

MaxRows == 3          \* rows in a loaded dataset
TicksPerDay == 2      \* resolution of timestamps: ticks in one day

----------------------------------------------------------------------------
(* Column labels.                                                          *)
(*   order_no     'Номер заказа'                                           *)
(*   status       'Статус'                                                 *)
(*   accepted     'Принят в обработку'                                     *)
(*   shipped      'Дата отгрузки'                                          *)
(*   handed_over  'Фактическая дата передачи в доставку'                   *)
(*   delivered    'Дата доставки'                                          *)
(*   amount       'Сумма отправления'                                      *)
(*   product      'Наименование товара'                                    *)
(*   qty          'Количество'                                             *)
(*   sku          'Артикул'                                                *)
(*   price        'Ваша цена'                                              *)
(*   discount_pct 'Скидка %'                                               *)
(*   discount_rub 'Скидка руб'                                             *)
(*   weight       'Объемный вес товаров, кг'                               *)
(*   region       'Регион доставки'                                        *)

COLUMNS ==
    {"order_no", "status", "accepted", "shipped", "handed_over", "delivered", "amount",
     "product", "qty", "sku", "price", "discount_pct", "discount_rub", "weight", "region"}

DATE_COLUMNS == {"accepted", "shipped", "handed_over", "delivered"}
KEY_COLUMNS == {"order_no", "product", "sku", "region"}

\* The basic export (11 fields) and the extended export (25 fields).
BASIC_SCHEMA ==
    {"order_no", "status", "accepted", "shipped", "handed_over", "delivered", "amount",
     "product", "qty"}
EXTENDED_SCHEMA ==
    BASIC_SCHEMA \cup {"sku", "price", "discount_pct", "discount_rub", "weight"}

\* Status values compared by the analyzers.
DELIVERED == "Dostavlen"          \* 'Доставлен'
CANCELLED == "Otmenen"            \* 'Отменён'
IN_DELIVERY == "Dostavlyaetsya"   \* 'Доставляется'

----------------------------------------------------------------------------
(* Values *)

NaN == [null |-> TRUE, v |-> 0]
Num(x) == [null |-> FALSE, v |-> x]
Frac(a, b) == [n |-> a, d |-> b]
FracNaN == Frac(0, 0)
IsNaN(f) == f.d = 0 /\ f.n = 0
IsFinite(f) == f.d > 0
FracEq(f, x) == f.d > 0 /\ f.n = x * f.d          \* the float f equals the integer x
FracLe(f, x) == f.d > 0 /\ f.n <= x * f.d
FracGe(f, x) == f.d > 0 /\ f.n >= x * f.d

Returned(v) == [raised |-> "none", value |-> v]
Raised(exc, key) == [raised |-> exc, value |-> key]
KeyError(key) == Raised("KeyError", key)

\* Raw cell texts.  A date text is written in one of the two export formats
\* or is not a date; a number text is plain ('1234.5'), uses a decimal comma
\* ('1234,5'), has thousands spaces too ('1 234,5'), ends in a percent sign
\* ('45%'), or is not a number.
RawDate(f, t) == [fmt |-> f, t |-> t]
RawNum(k, x) == [kind |-> k, v |-> x]
AbsentCell(c) ==
    IF c \in DATE_COLUMNS THEN RawDate("absent", 0)
    ELSE IF c \in KEY_COLUMNS THEN NaN
    ELSE IF c = "status" THEN ""
    ELSE RawNum("absent", 0)

Days(n) == n * TicksPerDay

RECURSIVE SeqsUpTo(_, _)
SeqsUpTo(S, n) ==
    IF n = 0 THEN {<<>>}
    ELSE LET shorter == SeqsUpTo(S, n - 1)
         IN shorter \cup {Append(s, x) : s \in {t \in shorter : Len(t) = n - 1}, x \in S}

\* A DataFrame with the columns cols: cells of the other columns do not exist.
DataFrame(cols, rows) ==
    [cols |-> cols,
     rows |-> [i \in DOMAIN rows |->
                 [c \in COLUMNS |-> IF c \in cols THEN rows[i][c] ELSE AbsentCell(c)]]]

----------------------------------------------------------------------------
(* pandas helpers *)

RECURSIVE SumSeq(_)
SumSeq(s) == IF s = <<>> THEN 0 ELSE Head(s) + SumSeq(Tail(s))

\* Series.sum(): NaN cells are skipped, the empty sum is 0
ColSum(rows, c) ==
    SumSeq([i \in DOMAIN rows |-> IF rows[i][c].null THEN 0 ELSE rows[i][c].v])

\* A slip in the count: the size of the group, NaN cells included
ColCount_Size(rows, c) == Len(rows)

\* Series.count(): the cells that are not NaN
ColCount(rows, c) == Len(SelectSeq(rows, LAMBDA r : ~r[c].null))

\* Series.mean(): the mean of the cells that are not NaN, NaN when there is none
ColMean(rows, c) == Frac(ColSum(rows, c), ColCount(rows, c))

\* Series.max(): the largest cell that is not NaN, NaN when there is none
ColMax(rows, c) ==
    LET vals == {rows[i][c].v : i \in {j \in DOMAIN rows : ~rows[j][c].null}}
    IN IF vals = {} THEN FracNaN
       ELSE Frac(CHOOSE m \in vals : \A x \in vals : x <= m, 1)

----------------------------------------------------------------------------
(* Normalization *)

\* A cell that holds a value already (a timestamp, a float, NaT or NaN), as
\* the cells of a normalized frame do, and not a text
IsParsed(cell) == "null" \in DOMAIN cell

\* pd.to_datetime(col, format='%Y-%m-%d %H:%M:%S', errors='coerce'): a column
\* of timestamps is returned as it is
to_datetime_iso(cell) ==
    IF IsParsed(cell) THEN cell
    ELSE IF cell.fmt = "iso" THEN Num(cell.t) ELSE NaN

\* Every cell is read as a text in the format: a timestamp is not one
to_datetime_dmy_Reparse(cell) ==
    IF IsParsed(cell) THEN NaN
    ELSE IF cell.fmt = "dmy" THEN Num(cell.t) ELSE NaN

\* pd.to_datetime(col, format='%d.%m.%Y %H:%M', dayfirst=True, errors='coerce'):
\* a column of timestamps is returned as it is
to_datetime_dmy(cell) ==
    IF IsParsed(cell) THEN cell
    ELSE IF cell.fmt = "dmy" THEN Num(cell.t) ELSE NaN

\* .astype(str): a float becomes its shortest text that reads back as the
\* same float, NaN becomes 'nan'; a text stays
astype_str(cell) ==
    IF ~IsParsed(cell) THEN cell
    ELSE IF cell.null THEN RawNum("nan", 0)
    ELSE RawNum("plain", cell.v)

\* pd.to_numeric(text, errors='coerce'): only a plain number parses ('nan'
\* reads as NaN)
to_numeric(cell) ==
    IF cell.kind = "plain" THEN Num(cell.v) ELSE NaN

\* .astype(str).str.replace(',', '.', regex=False): the decimal comma becomes
\* a point; spaces and a percent sign stay
replace_comma(cell) ==
    IF cell.kind = "comma" THEN RawNum("plain", cell.v) ELSE cell

\* .str.replace(' ', ''): thousands spaces go (after the comma was replaced,
\* '1 234.5' becomes '1234.5')
replace_space(cell) ==
    IF cell.kind = "space" THEN RawNum("plain", cell.v) ELSE cell

ENHANCED_DATE_COLUMNS == {"accepted", "handed_over", "delivered"}
ENHANCED_NUMERIC_COLUMNS ==
    {"price", "discount_rub", "discount_pct", "weight", "qty", "amount"}

EnhancedCell(cols, row, c) ==
    IF c \notin cols THEN row[c]
    ELSE IF c \in ENHANCED_DATE_COLUMNS THEN to_datetime_iso(row[c])
    ELSE IF c \in ENHANCED_NUMERIC_COLUMNS
         THEN to_numeric(replace_comma(astype_str(row[c])))
    ELSE row[c]

\* EnhancedOrderAnalyzer._prepare_data: every row is kept
EnhancedPrepareData(d) ==
    Returned([cols |-> d.cols,
              rows |-> [i \in DOMAIN d.rows |->
                          [c \in COLUMNS |-> EnhancedCell(d.cols, d.rows[i], c)]]])

ORDER_DATE_COLUMNS == {"accepted", "shipped", "delivered", "handed_over"}
ORDER_NUMERIC_COLUMNS == {"amount", "qty"}

OrderCell(cols, row, c) ==
    IF c \notin cols THEN row[c]
    ELSE IF c \in ORDER_DATE_COLUMNS THEN to_datetime_dmy(row[c])
    ELSE IF c \in ORDER_NUMERIC_COLUMNS
         THEN to_numeric(replace_space(replace_comma(astype_str(row[c]))))
    ELSE row[c]

\* df.dropna(subset=['Принят в обработку'])
dropna_accepted(rows) == SelectSeq(rows, LAMBDA r : ~r.accepted.null)

\* OrderAnalyzer._prepare_data
OrderPrepareData(d) ==
    IF "accepted" \notin d.cols THEN KeyError("accepted")
    ELSE Returned([cols |-> d.cols,
                   rows |-> dropna_accepted(
                              [i \in DOMAIN d.rows |->
                                 [c \in COLUMNS |-> OrderCell(d.cols, d.rows[i], c)]])])

_prepare_data(kind, d) ==
    IF kind = "Enhanced" THEN EnhancedPrepareData(d) ELSE OrderPrepareData(d)

----------------------------------------------------------------------------
(* Metrics of EnhancedOrderAnalyzer: basic metrics and discounts *)

\* self.df[self.df['Статус'] == s]
WithStatus(rows, s) == SelectSeq(rows, LAMBDA r : r.status = s)

\* A slip in the denominator of the rates: the delivered orders only
TotalOrders_DeliveredOnly(d) == Len(WithStatus(d.rows, DELIVERED))

\* len(self.df): the denominator of both rates (line 65)
TotalOrders(d) == Len(d.rows)

\* 'Сумма отправления' when the column exists, else 'Ваша цена'
RevenueColumn(d) == IF "amount" \in d.cols THEN "amount" ELSE "price"

\* A slip in the revenue cohort: every order, whatever its status
RevenueCohort_AllOrders(d) == d.rows

\* The cohort whose amounts make total_revenue and avg_order_value (line 71)
RevenueCohort(d) == WithStatus(d.rows, DELIVERED)

\* A slip in the cancelled cohort: every order that is not delivered
CancelledCohort_NotDelivered(d) == SelectSeq(d.rows, LAMBDA r : r.status # DELIVERED)

\* The orders counted as cancelled (line 67)
CancelledCohort(d) == WithStatus(d.rows, CANCELLED)

\* EnhancedOrderAnalyzer.get_basic_metrics
get_basic_metrics(d) ==
    IF "status" \notin d.cols THEN KeyError("status")
    ELSE
    LET total_orders == TotalOrders(d)
        delivered_orders == Len(WithStatus(d.rows, DELIVERED))
        cancelled_orders == Len(CancelledCohort(d))
        in_delivery == Len(WithStatus(d.rows, IN_DELIVERY))
        delivered_df == RevenueCohort(d)
        col == RevenueColumn(d)
    IN IF Len(delivered_df) > 0 /\ col \notin d.cols THEN KeyError(col)
       ELSE IF "discount_rub" \notin d.cols THEN KeyError("discount_rub")
       ELSE Returned(
         [total_orders |-> total_orders,
          delivered_orders |-> delivered_orders,
          cancelled_orders |-> cancelled_orders,
          in_delivery |-> in_delivery,
          delivery_rate |->
              IF total_orders > 0 THEN Frac(delivered_orders * 100, total_orders)
              ELSE Frac(0, 1),
          cancellation_rate |->
              IF total_orders > 0 THEN Frac(cancelled_orders * 100, total_orders)
              ELSE Frac(0, 1),
          total_revenue |->
              IF Len(delivered_df) > 0 THEN ColSum(delivered_df, col) ELSE 0,
          avg_order_value |->
              IF Len(delivered_df) > 0 THEN ColMean(delivered_df, col) ELSE Frac(0, 1),
          total_discount_amount |-> ColSum(d.rows, "discount_rub")])

\* self.df[self.df['Скидка руб'] > 0]: a NaN discount compares False
DiscountedOrders(d) ==
    SelectSeq(d.rows, LAMBDA r : ~r.discount_rub.null /\ r.discount_rub.v > 0)

\* The dict returned when no order has a discount (lines 98-105)
NoDiscountResult ==
    [orders_with_discount |-> 0,
     discount_percentage |-> Frac(0, 1),
     avg_discount_amount |-> Frac(0, 1),
     avg_discount_percent |-> Frac(0, 1),
     total_savings |-> 0]

\* EnhancedOrderAnalyzer.analyze_discounts
analyze_discounts(d) ==
    IF "discount_rub" \notin d.cols THEN KeyError("discount_rub")
    ELSE
    LET discounted_orders == DiscountedOrders(d)
    IN IF Len(discounted_orders) = 0 THEN Returned(NoDiscountResult)
       ELSE IF "discount_pct" \notin d.cols THEN KeyError("discount_pct")
       ELSE Returned(
         [orders_with_discount |-> Len(discounted_orders),
          discount_percentage |-> Frac(Len(discounted_orders) * 100, Len(d.rows)),
          avg_discount_amount |-> ColMean(discounted_orders, "discount_rub"),
          avg_discount_percent |-> ColMean(discounted_orders, "discount_pct"),
          total_savings |-> ColSum(discounted_orders, "discount_rub"),
          max_discount_amount |-> ColMax(discounted_orders, "discount_rub"),
          max_discount_percent |-> ColMax(discounted_orders, "discount_pct")])

----------------------------------------------------------------------------
(* Delivery performance *)

MAX_DELIVERY_DAYS == 30     \* delivery_time <= 30
ON_TIME_DAYS == 5           \* delivery_time <= 5

\* Insertion of x into the ascending sequence s, after the elements equal to it
RECURSIVE InsertAsc(_, _)
InsertAsc(s, x) ==
    IF s = <<>> THEN <<x>>
    ELSE IF Head(s) <= x THEN <<Head(s)>> \o InsertAsc(Tail(s), x)
    ELSE <<x>> \o s

RECURSIVE SortAsc(_)
SortAsc(s) == IF s = <<>> THEN <<>> ELSE InsertAsc(SortAsc(SubSeq(s, 1, Len(s) - 1)), s[Len(s)])

\* Series.mean() of a sequence of integers
SeqMean(s) == Frac(SumSeq(s), Len(s))

\* Series.median(): the middle value, or the mean of the two middle values
SeqMedian(s) ==
    LET a == SortAsc(s)
        n == Len(s)
    IN IF n = 0 THEN FracNaN
       ELSE IF n % 2 = 1 THEN Frac(a[(n + 1) \div 2], 1)
       ELSE Frac(a[n \div 2] + a[n \div 2 + 1], 2)

\* The square of Series.std() (ddof = 1): NaN for a single value
SeqVar(s) ==
    LET n == Len(s)
        sum == SumSeq(s)
        sumsq == SumSeq([i \in DOMAIN s |-> s[i] * s[i]])
    IN Frac(n * sumsq - sum * sum, n * (n - 1))

\* (row['Дата доставки'] - row['Принят в обработку']).days: the whole days of
\* the difference, rounded down; NaN when either timestamp is NaT
DeliveryTime(r) ==
    IF r.delivered.null \/ r.accepted.null THEN NaN
    ELSE Num((r.delivered.v - r.accepted.v) \div TicksPerDay)

\* A slip in the filters: the upper limit of 30 days is not applied
RetainedDeliveries_NoUpperLimit(d) ==
    SelectSeq(WithStatus(d.rows, DELIVERED),
              LAMBDA r : ~DeliveryTime(r).null /\ DeliveryTime(r).v >= 0)

\* delivered_orders after the two filters (lines 363, 380, 381)
RetainedDeliveries(d) ==
    SelectSeq(WithStatus(d.rows, DELIVERED),
              LAMBDA r : /\ ~DeliveryTime(r).null
                         /\ DeliveryTime(r).v >= 0
                         /\ DeliveryTime(r).v <= MAX_DELIVERY_DAYS)

\* A slip in the on-time test: strictly fewer than 5 days
OnTimeOrders_Strict(rows) == SelectSeq(rows, LAMBDA r : DeliveryTime(r).v < ON_TIME_DAYS)

\* The rows counted as delivered on time (line 396)
OnTimeOrders(rows) == SelectSeq(rows, LAMBDA r : DeliveryTime(r).v <= ON_TIME_DAYS)

\* The dict returned for an empty cohort (lines 366-371 and 384-389)
NoDeliveryResult ==
    [avg_delivery_time |-> Frac(0, 1),
     median_delivery_time |-> Frac(0, 1),
     delivery_time_std |-> Frac(0, 1),
     on_time_delivery_rate |-> Frac(0, 1)]

\* EnhancedOrderAnalyzer.analyze_delivery_performance
\* (delivery_time_std holds the square of the standard deviation)
analyze_delivery_performance(d) ==
    IF "status" \notin d.cols THEN KeyError("status")
    ELSE IF Len(WithStatus(d.rows, DELIVERED)) = 0 THEN Returned(NoDeliveryResult)
    ELSE IF "delivered" \notin d.cols THEN KeyError("delivered")
    ELSE IF "accepted" \notin d.cols THEN KeyError("accepted")
    ELSE
    LET delivered_orders == RetainedDeliveries(d)
        times == [i \in DOMAIN delivered_orders |-> DeliveryTime(delivered_orders[i]).v]
    IN IF Len(delivered_orders) = 0 THEN Returned(NoDeliveryResult)
       ELSE Returned(
         [avg_delivery_time |-> SeqMean(times),
          median_delivery_time |-> SeqMedian(times),
          delivery_time_std |-> SeqVar(times),
          on_time_delivery_rate |->
              Frac(Len(OnTimeOrders(delivered_orders)) * 100, Len(delivered_orders)),
          total_delivered |-> Len(delivered_orders)])

----------------------------------------------------------------------------
(* Weight logistics *)

HEAVY_WEIGHT == 20          \* weight > 2.0 kg
LIGHT_WEIGHT == 5           \* weight <= 0.5 kg

\* The dict returned when there is no weight data (lines 411-419 and 424-432)
NoWeightResult ==
    [total_weight_kg |-> 0,
     avg_weight_per_order |-> Frac(0, 1),
     heavy_orders_count |-> 0,
     light_orders_count |-> 0,
     heavy_orders_percentage |-> Frac(0, 1),
     light_orders_percentage |-> Frac(0, 1),
     weight_data_available |-> FALSE]

\* Every record, with a weight or without
WeightData_AllRows(d) == d.rows

\* self.df[self.df['Объемный вес товаров, кг'].notna()]
WeightData(d) == SelectSeq(d.rows, LAMBDA r : ~r.weight.null)

\* EnhancedOrderAnalyzer.analyze_weight_logistics
analyze_weight_logistics(d) ==
    IF "weight" \notin d.cols THEN Returned(NoWeightResult)
    ELSE
    LET weight_data == WeightData(d)
        heavy_orders == Len(SelectSeq(weight_data, LAMBDA r : r.weight.v > HEAVY_WEIGHT))
        light_orders == Len(SelectSeq(weight_data, LAMBDA r : r.weight.v <= LIGHT_WEIGHT))
    IN IF Len(weight_data) = 0 THEN Returned(NoWeightResult)
       ELSE Returned(
         [total_weight_kg |-> ColSum(weight_data, "weight"),
          avg_weight_per_order |-> ColMean(weight_data, "weight"),
          heavy_orders_count |-> heavy_orders,
          light_orders_count |-> light_orders,
          heavy_orders_percentage |-> Frac(heavy_orders * 100, Len(weight_data)),
          light_orders_percentage |-> Frac(light_orders * 100, Len(weight_data)),
          weight_data_available |-> TRUE])

----------------------------------------------------------------------------
(* Grouped aggregates *)

DaysPerMonth == 30    \* days in a month of the modelled calendar

\* a / b as numpy divides floats: x/0 is +-inf and 0/0 is NaN
Div(a, b) ==
    IF b > 0 THEN Frac(a, b)
    ELSE IF b < 0 THEN Frac(0 - a, 0 - b)
    ELSE Frac(IF a > 0 THEN 1 ELSE IF a < 0 THEN 0 - 1 ELSE 0, 0)

\* round(): f rounded to a multiple of 1/scale, halves to the even neighbour;
\* NaN and inf stay
RoundTo(f, scale) ==
    IF f.d = 0 THEN f
    ELSE LET num == f.n * scale
             q == num \div f.d
             r == num % f.d
             k == IF 2 * r < f.d THEN q
                  ELSE IF 2 * r > f.d THEN q + 1
                  ELSE IF q % 2 = 0 THEN q ELSE q + 1
         IN Frac(k, scale)

MONEY_SCALE == 100    \* .round(2) of money
WEIGHT_SCALE == 10    \* .round(2) of kilograms, counted in tenths
PERCENT_SCALE == 100  \* .round(2) of a percentage

\* pd.DataFrame()
EmptyDataFrame == [kind |-> "DataFrame", columns |-> <<>>, rows |-> <<>>]
\* {}
EmptyDict == [kind |-> "dict", columns |-> <<>>, rows |-> <<>>]
Table(columns, rows) == [kind |-> "DataFrame", columns |-> columns, rows |-> rows]

RECURSIVE SetToSeqAsc(_)
SetToSeqAsc(S) ==
    IF S = {} THEN <<>>
    ELSE LET m == CHOOSE x \in S : \A y \in S : x <= y
         IN <<m>> \o SetToSeqAsc(S \ {m})

\* row['Принят в обработку'].date(): the calendar day, NaT for NaT
AcceptedDate(r) ==
    IF r.accepted.null THEN NaN ELSE Num(r.accepted.v \div TicksPerDay)

\* row['Принят в обработку'].to_period('M'): the calendar month, NaT for NaT
AcceptedMonth(r) ==
    IF r.accepted.null THEN NaN ELSE Num((r.accepted.v \div TicksPerDay) \div DaysPerMonth)

\* The key a row is grouped by: a column of the frame, or the day or the
\* month of its acceptance
GroupKey(by, r) ==
    CASE by = "date" -> AcceptedDate(r)
      [] by = "month_year" -> AcceptedMonth(r)
      [] OTHER -> r[by]

\* groupby(by): the distinct keys that are not null, ascending
GroupKeys(rows, by) ==
    SetToSeqAsc({GroupKey(by, rows[i]).v :
                    i \in {j \in DOMAIN rows : ~GroupKey(by, rows[j]).null}})

\* the rows of one group, in the order of the frame
GroupRows(rows, by, k) == SelectSeq(rows, LAMBDA r : GroupKey(by, r) = Num(k))

\* agg 'first': the first cell of the column that is not null
ColFirst(rows, c) ==
    LET present == SelectSeq(rows, LAMBDA r : ~r[c].null)
    IN IF present = <<>> THEN NaN ELSE present[1][c]

\* The first column of the sequence wanted that the frame lacks, "" if none
RECURSIVE FirstMissing(_, _)
FirstMissing(wanted, cols) ==
    IF wanted = <<>> THEN ""
    ELSE IF Head(wanted) \notin cols THEN Head(wanted)
    ELSE FirstMissing(Tail(wanted), cols)

\* The default kind of sort_values and argsort, 'quicksort', is not a stable
\* sort: where rows of equal key end up is a matter of the numpy build and of
\* the length of the column.  Two outcomes are modelled: the rows of equal
\* key keep the order they had, or they come out in the opposite order.
KEEPS_TIES == "keeps_ties"
REVERSES_TIES == "reverses_ties"
SORT_BUILDS == {KEEPS_TIES, REVERSES_TIES}

\* sort_values('total_revenue', ascending=False)
RECURSIVE InsertByRevenue(_, _)
InsertByRevenue(s, x) ==
    IF s = <<>> THEN <<x>>
    ELSE IF \/ Head(s).total_revenue > x.total_revenue
            \/ Head(s).total_revenue = x.total_revenue /\ quicksort = KEEPS_TIES
         THEN <<Head(s)>> \o InsertByRevenue(Tail(s), x)
    ELSE <<x>> \o s

RECURSIVE SortByRevenueDesc(_)
SortByRevenueDesc(s) ==
    IF s = <<>> THEN <<>>
    ELSE InsertByRevenue(SortByRevenueDesc(SubSeq(s, 1, Len(s) - 1)), s[Len(s)])

\* the weight aggregate of a group: pd.NA when the frame has no weight column
AvgWeight(d, g) ==
    IF "weight" \in d.cols THEN RoundTo(ColMean(g, "weight"), WEIGHT_SCALE) ELSE FracNaN

PRODUCT_STATS_COLUMNS ==
    <<"total_quantity", "total_revenue", "avg_price", "total_discount", "avg_weight">>

\* EnhancedOrderAnalyzer.analyze_product_categories
analyze_product_categories(d) ==
    IF "status" \notin d.cols THEN KeyError("status")
    ELSE
    LET delivered_df == WithStatus(d.rows, DELIVERED)
        col == RevenueColumn(d)
        missing == FirstMissing(<<"product", "qty", col, "discount_rub">>, d.cols)
        stats(k) ==
            LET g == GroupRows(delivered_df, "product", k)
            IN [key |-> k,
                total_quantity |-> ColSum(g, "qty"),
                total_revenue |-> ColSum(g, col),
                avg_price |-> RoundTo(ColMean(g, col), MONEY_SCALE),
                total_discount |-> ColSum(g, "discount_rub"),
                avg_weight |-> AvgWeight(d, g)]
        keys == GroupKeys(delivered_df, "product")
    IN IF Len(delivered_df) = 0 THEN Returned(EmptyDataFrame)
       ELSE IF missing # "" THEN KeyError(missing)
       ELSE Returned(Table(PRODUCT_STATS_COLUMNS,
                           SortByRevenueDesc([i \in DOMAIN keys |-> stats(keys[i])])))

SKU_STATS_COLUMNS ==
    <<"total_quantity", "total_revenue", "avg_price", "total_discount", "product_name",
      "avg_weight", "discount_rate", "revenue_per_unit">>

\* The SKU column is read only when it is there (line 172)
HasSkuColumn(d) == "sku" \in d.cols

\* EnhancedOrderAnalyzer.analyze_product_by_sku
analyze_product_by_sku(d) ==
    IF "status" \notin d.cols THEN KeyError("status")
    ELSE
    LET delivered_df == WithStatus(d.rows, DELIVERED)
        col == RevenueColumn(d)
        missing == FirstMissing(<<"qty", col, "discount_rub", "product">>, d.cols)
        stats(k) ==
            LET g == GroupRows(delivered_df, "sku", k)
                total_quantity == ColSum(g, "qty")
                total_revenue == ColSum(g, col)
                total_discount == ColSum(g, "discount_rub")
            IN [key |-> k,
                total_quantity |-> total_quantity,
                total_revenue |-> total_revenue,
                avg_price |-> RoundTo(ColMean(g, col), MONEY_SCALE),
                total_discount |-> total_discount,
                product_name |-> ColFirst(g, "product"),
                avg_weight |-> AvgWeight(d, g),
                discount_rate |->
                    RoundTo(Div(total_discount * 100, total_revenue + total_discount),
                            PERCENT_SCALE),
                revenue_per_unit |->
                    RoundTo(Div(total_revenue, total_quantity), MONEY_SCALE)]
        keys == GroupKeys(delivered_df, "sku")
    IN IF Len(delivered_df) = 0 \/ ~HasSkuColumn(d) THEN Returned(EmptyDataFrame)
       ELSE IF missing # "" THEN KeyError(missing)
       ELSE Returned(Table(SKU_STATS_COLUMNS,
                           SortByRevenueDesc([i \in DOMAIN keys |-> stats(keys[i])])))

----------------------------------------------------------------------------
(* ABC analysis and SKU performance *)

ABC_A_LIMIT == 80           \* cumulative_share <= 80
ABC_B_LIMIT == 95           \* cumulative_share <= 95
HIGH_REVENUE_THRESHOLD == 10000

\* classify_abc, on a cumulative share (NaN compares False both times)
classify_abc(cumulative_share) ==
    IF FracLe(cumulative_share, ABC_A_LIMIT) THEN "A"
    ELSE IF FracLe(cumulative_share, ABC_B_LIMIT) THEN "B"
    ELSE "C"

\* Sum of a sequence of fractions over one denominator, NaN skipped
FracSum(s, den) ==
    Frac(SumSeq([i \in DOMAIN s |-> IF s[i].d = 0 THEN 0 ELSE s[i].n]), den)

\* The dict returned for an empty SKU table (lines 224-234)
NoAbcResult ==
    [category_A |-> <<>>, category_B |-> <<>>, category_C |-> <<>>,
     revenue_share_A |-> Frac(0, 1),
     revenue_share_B |-> Frac(0, 1),
     revenue_share_C |-> Frac(0, 1),
     cumulative_A |-> Frac(0, 1),
     cumulative_B |-> Frac(0, 1),
     cumulative_C |-> Frac(100, 1)]

\* The revenue shares of the SKU table, in its order (line 238)
RevenueShares(revenues, total_revenue) ==
    [i \in DOMAIN revenues |->
       RoundTo(Div(revenues[i] * 100, total_revenue), PERCENT_SCALE)]

\* The shares themselves, not their running sum
CumulativeShares_NotRunning(shares) == shares

\* A slip in the running sum: the shares before the SKU, its own left out
CumulativeShares_Exclusive(shares) ==
    [i \in DOMAIN shares |->
       IF shares[i].d = 0 THEN shares[i]
       ELSE FracSum(SubSeq(shares, 1, i - 1), PERCENT_SCALE)]

\* .cumsum().round(2) (line 239): NaN stays NaN
CumulativeShares(shares) ==
    [i \in DOMAIN shares |->
       IF shares[i].d = 0 THEN shares[i]
       ELSE FracSum(SubSeq(shares, 1, i), PERCENT_SCALE)]

\* sku_stats with the columns revenue_share, cumulative_share, abc_category
AbcRows(rows, shares, cumulative) ==
    [i \in DOMAIN rows |->
       [key |-> rows[i].key,
        revenue_share |-> shares[i],
        cumulative_share |-> cumulative[i],
        abc_category |-> classify_abc(cumulative[i])]]

AbcTableOf(rows, shares) == AbcRows(rows, shares, CumulativeShares(shares))

AbcTable(rows) ==
    AbcTableOf(rows,
               RevenueShares([i \in DOMAIN rows |-> rows[i].total_revenue],
                             SumSeq([i \in DOMAIN rows |-> rows[i].total_revenue])))

\* The SKUs of one category, in the order of the table (lines 253-255)
CategoryKeys(t, c) ==
    LET members == SelectSeq(t, LAMBDA r : r.abc_category = c)
    IN [i \in DOMAIN members |-> members[i].key]

\* The revenue share of one category (lines 258-260)
CategoryShare(t, c) ==
    LET members == SelectSeq(t, LAMBDA r : r.abc_category = c)
    IN FracSum([i \in DOMAIN members |-> members[i].revenue_share], PERCENT_SCALE)

\* The dict of the ABC analysis of a SKU table that is not empty
AbcResult(t) ==
    [category_A |-> CategoryKeys(t, "A"),
     category_B |-> CategoryKeys(t, "B"),
     category_C |-> CategoryKeys(t, "C"),
     revenue_share_A |-> CategoryShare(t, "A"),
     revenue_share_B |-> CategoryShare(t, "B"),
     revenue_share_C |-> CategoryShare(t, "C"),
     cumulative_A |-> CategoryShare(t, "A"),
     cumulative_B |-> Frac(CategoryShare(t, "A").n + CategoryShare(t, "B").n, PERCENT_SCALE),
     cumulative_C |-> Frac(100, 1)]

AbcOf(sku_stats) ==
    IF sku_stats.raised # "none" THEN sku_stats
    ELSE IF Len(sku_stats.value.rows) = 0 THEN Returned(NoAbcResult)
    ELSE Returned(AbcResult(AbcTable(sku_stats.value.rows)))

\* EnhancedOrderAnalyzer.get_sku_abc_analysis
get_sku_abc_analysis(d) == AbcOf(analyze_product_by_sku(d))

\* The dict returned for an empty SKU table (lines 284-302); "N/A" is NaN
NoSkuPerformanceResult ==
    [total_skus |-> 0, total_unique_skus |-> 0,
     avg_revenue_per_sku |-> Frac(0, 1),
     median_revenue_per_sku |-> Frac(0, 1),
     avg_quantity_per_sku |-> Frac(0, 1),
     top_sku_by_revenue |-> NaN, top_sku_revenue |-> 0,
     top_sku_by_quantity |-> NaN, top_sku_quantity |-> 0,
     a_category_skus |-> 0, b_category_skus |-> 0, c_category_skus |-> 0,
     a_category_revenue_share |-> Frac(0, 1),
     top_10_percent_revenue_share |-> Frac(0, 1),
     gini_coefficient |-> Frac(0, 1),
     high_revenue_skus |-> 0,
     high_revenue_share |-> Frac(0, 1)]

\* np.cumsum
CumSum(s) == [i \in DOMAIN s |-> SumSeq(SubSeq(s, 1, i))]

\* The formula over the revenues in the order of the table, which is descending
GiniCoefficient_Unsorted(revenues) ==
    LET n == Len(revenues)
        cumsum == CumSum(revenues)
    IN IF cumsum[n] > 0
       THEN Div((n + 1) * cumsum[n] - 2 * SumSeq(cumsum), n * cumsum[n])
       ELSE Frac(0, 1)

\* (n + 1 - 2 * sum(cumsum) / cumsum[-1]) / n over the revenues, ascending
GiniCoefficient(revenues) ==
    LET sorted == SortAsc(revenues)
        n == Len(sorted)
        cumsum == CumSum(sorted)
    IN IF cumsum[n] > 0
       THEN Div((n + 1) * cumsum[n] - 2 * SumSeq(cumsum), n * cumsum[n])
       ELSE Frac(0, 1)

\* sku_stats.nlargest(1, 'total_quantity'): the first row of the largest quantity
TopByQuantity(rows) ==
    CHOOSE i \in DOMAIN rows :
        /\ \A j \in DOMAIN rows : rows[j].total_quantity <= rows[i].total_quantity
        /\ \A j \in 1..(i - 1) : rows[j].total_quantity < rows[i].total_quantity

\* max(1, int(total_skus * 0.1))
Top10PercentCount(total_skus) == IF total_skus \div 10 > 1 THEN total_skus \div 10 ELSE 1

\* part / total * 100 if total > 0 else 0, rounded to one decimal
ShareOfRevenue(part, total_revenue) ==
    IF total_revenue > 0 THEN RoundTo(Div(part * 100, total_revenue), 10) ELSE Frac(0, 1)

\* The dict of the performance metrics of a SKU table that is not empty
SkuPerformance(rows, revenues, quantities, abc) ==
    [total_skus |-> Len(rows), total_unique_skus |-> Len(rows),
     avg_revenue_per_sku |-> RoundTo(Div(SumSeq(revenues), Len(rows)), 100),
     median_revenue_per_sku |-> SeqMedian(revenues),
     avg_quantity_per_sku |-> RoundTo(Div(SumSeq(quantities), Len(rows)), 100),
     top_sku_by_revenue |-> Num(rows[1].key),
     top_sku_revenue |-> rows[1].total_revenue,
     top_sku_by_quantity |-> Num(rows[TopByQuantity(rows)].key),
     top_sku_quantity |-> rows[TopByQuantity(rows)].total_quantity,
     a_category_skus |-> Len(abc.category_A),
     b_category_skus |-> Len(abc.category_B),
     c_category_skus |-> Len(abc.category_C),
     a_category_revenue_share |-> abc.revenue_share_A,
     top_10_percent_revenue_share |->
         ShareOfRevenue(SumSeq(SubSeq(revenues, 1, Top10PercentCount(Len(rows)))),
                        SumSeq(revenues)),
     gini_coefficient |-> RoundTo(GiniCoefficient(revenues), 1000),
     high_revenue_skus |->
         Len(SelectSeq(revenues, LAMBDA x : x > HIGH_REVENUE_THRESHOLD)),
     high_revenue_share |->
         ShareOfRevenue(SumSeq(SelectSeq(revenues, LAMBDA x : x > HIGH_REVENUE_THRESHOLD)),
                        SumSeq(revenues))]

SkuPerformanceOf(sku_stats, abc_analysis) ==
    IF sku_stats.raised # "none" THEN sku_stats
    ELSE IF Len(sku_stats.value.rows) = 0 THEN Returned(NoSkuPerformanceResult)
    ELSE Returned(SkuPerformance(
             sku_stats.value.rows,
             [i \in DOMAIN sku_stats.value.rows |-> sku_stats.value.rows[i].total_revenue],
             [i \in DOMAIN sku_stats.value.rows |-> sku_stats.value.rows[i].total_quantity],
             abc_analysis.value))

\* EnhancedOrderAnalyzer.get_sku_performance_metrics
get_sku_performance_metrics(d) ==
    SkuPerformanceOf(analyze_product_by_sku(d), get_sku_abc_analysis(d))

----------------------------------------------------------------------------
(* Regional, daily and monthly analysis *)

REGIONAL_COLUMNS == <<"order_count", "total_revenue", "avg_order_value", "total_discount">>

\* The region column is read only when it is there (line 453)
HasRegionColumn(d) == "region" \in d.cols

\* EnhancedOrderAnalyzer.get_regional_analysis
get_regional_analysis(d) ==
    IF ~HasRegionColumn(d) THEN Returned(EmptyDict)
    ELSE IF "status" \notin d.cols THEN KeyError("status")
    ELSE
    LET delivered_df == WithStatus(d.rows, DELIVERED)
        col == RevenueColumn(d)
        missing == FirstMissing(<<"order_no", col, "discount_rub">>, d.cols)
        stats(k) ==
            LET g == GroupRows(delivered_df, "region", k)
            IN [key |-> k,
                order_count |-> ColCount(g, "order_no"),
                total_revenue |-> ColSum(g, col),
                avg_order_value |-> RoundTo(ColMean(g, col), MONEY_SCALE),
                total_discount |-> ColSum(g, "discount_rub")]
        keys == GroupKeys(delivered_df, "region")
    IN IF Len(delivered_df) = 0 THEN Returned(EmptyDict)
       ELSE IF missing # "" THEN KeyError(missing)
       ELSE Returned(Table(REGIONAL_COLUMNS,
                           SortByRevenueDesc([i \in DOMAIN keys |-> stats(keys[i])])))

DAILY_COLUMNS == <<"date", "orders_count", "daily_revenue", "daily_discount", "items_sold">>

\* EnhancedOrderAnalyzer.get_time_series_analysis
get_time_series_analysis(d) ==
    IF "accepted" \notin d.cols THEN Returned(EmptyDataFrame)
    ELSE IF "status" \notin d.cols THEN KeyError("status")
    ELSE
    LET delivered_df == WithStatus(d.rows, DELIVERED)
        col == RevenueColumn(d)
        missing == FirstMissing(<<"order_no", col, "discount_rub", "qty">>, d.cols)
        stats(k) ==
            LET g == GroupRows(delivered_df, "date", k)
            IN [date |-> k,
                orders_count |-> ColCount(g, "order_no"),
                daily_revenue |-> ColSum(g, col),
                daily_discount |-> ColSum(g, "discount_rub"),
                items_sold |-> ColSum(g, "qty")]
        keys == GroupKeys(delivered_df, "date")
    IN IF Len(delivered_df) = 0 THEN Returned(EmptyDataFrame)
       ELSE IF missing # "" THEN KeyError(missing)
       ELSE Returned(Table(DAILY_COLUMNS, [i \in DOMAIN keys |-> stats(keys[i])]))

MONTHLY_COLUMNS ==
    <<"month_year", "orders_count", "total_revenue", "avg_order_value", "total_discount",
      "total_quantity", "avg_weight_kg", "total_weight_kg", "revenue_per_order",
      "discount_rate", "avg_items_per_order", "success_rating", "month">>

\* Float arithmetic on fractions, kept in lowest terms.  NaN and +-inf are
\* the fractions of denominator 0.
RECURSIVE Gcd(_, _)
Gcd(a, b) == IF b = 0 THEN a ELSE Gcd(b, a % b)

Abs(x) == IF x < 0 THEN 0 - x ELSE x
Sign(x) == IF x > 0 THEN 1 ELSE IF x < 0 THEN 0 - 1 ELSE 0

Reduce(f) ==
    IF f.d = 0 THEN Frac(Sign(f.n), 0)
    ELSE Frac(Sign(f.n) * (Abs(f.n) \div Gcd(Abs(f.n), f.d)), f.d \div Gcd(Abs(f.n), f.d))

\* a + b: NaN with a NaN, and for inf - inf
FracAdd(a, b) ==
    IF a.d > 0 /\ b.d > 0 THEN Reduce(Frac(a.n * b.d + b.n * a.d, a.d * b.d))
    ELSE IF IsNaN(a) \/ IsNaN(b) THEN FracNaN
    ELSE IF a.d = 0 /\ b.d = 0 THEN (IF Sign(a.n) = Sign(b.n) THEN Frac(Sign(a.n), 0) ELSE FracNaN)
    ELSE IF a.d = 0 THEN Frac(Sign(a.n), 0)
    ELSE Frac(Sign(b.n), 0)

\* k * a for an integer k (0 * inf is NaN)
FracScale(k, a) == Reduce(Frac(k * a.n, a.d))

FracNeg(a) == Frac(0 - a.n, a.d)

\* a < b, False with a NaN
FracLess(a, b) ==
    IF IsNaN(a) \/ IsNaN(b) THEN FALSE
    ELSE IF a.d = 0 /\ b.d = 0 THEN a.n < b.n
    ELSE IF a.d = 0 THEN a.n < 0
    ELSE IF b.d = 0 THEN b.n > 0
    ELSE a.n * b.d < b.n * a.d

\* Series.min() and Series.max(): NaN is skipped, NaN when nothing is left
FracMin(xs) ==
    LET vals == {xs[i] : i \in {j \in DOMAIN xs : ~IsNaN(xs[j])}}
    IN IF vals = {} THEN FracNaN
       ELSE CHOOSE m \in vals : \A x \in vals : ~FracLess(x, m)

FracMax(xs) ==
    LET vals == {xs[i] : i \in {j \in DOMAIN xs : ~IsNaN(xs[j])}}
    IN IF vals = {} THEN FracNaN
       ELSE CHOOSE m \in vals : \A x \in vals : ~FracLess(m, x)

\* (x - lo) / (hi - lo + 1e-10), for finite x, lo and hi.  The 1e-10 decides
\* the case hi = lo, where the quotient is 0 / 1e-10 = 0; when hi > lo it
\* lowers the quotient by less than one part in 10^8 (hi - lo is at least
\* 0.01), which the fractions of the model leave out.
NormBetween(x, lo, hi) ==
    IF ~(IsFinite(x) /\ IsFinite(lo) /\ IsFinite(hi)) THEN FracNaN
    ELSE IF ~FracLess(lo, hi) THEN Frac(0, 1)
    ELSE Reduce(Frac(FracAdd(x, FracNeg(lo)).n * FracAdd(hi, FracNeg(lo)).d,
                     FracAdd(x, FracNeg(lo)).d * FracAdd(hi, FracNeg(lo)).n))

\* The column (xs - xs.min()) / (xs.max() - xs.min() + 1e-10)
MinMaxNorm(xs) == [i \in DOMAIN xs |-> NormBetween(xs[i], FracMin(xs), FracMax(xs))]

\* The four signals of the months (lines 550-553)
RevenueSignal(rows) == [i \in DOMAIN rows |-> Frac(rows[i].total_revenue, 1)]
VolumeSignal(rows) ==
    [i \in DOMAIN rows |-> FracScale(rows[i].orders_count, rows[i].avg_order_value)]
TurnoverSignal(rows) ==
    [i \in DOMAIN rows |-> FracScale(rows[i].orders_count, rows[i].avg_items_per_order)]

\* discount_eff_norm = (100 - discount_rate) / 100 (line 552)
DiscountEfficiency(rows) ==
    [i \in DOMAIN rows |->
       LET left == FracAdd(Frac(100, 1), FracNeg(rows[i].discount_rate))
       IN Reduce(Frac(left.n, left.d * 100))]

\* The same signal, min-max normalized across the months as the others are
DiscountEfficiency_MinMax(rows) ==
    MinMaxNorm([i \in DOMAIN rows |-> FracAdd(Frac(100, 1), FracNeg(rows[i].discount_rate))])

REVENUE_WEIGHT == 40
VOLUME_WEIGHT == 30
DISCOUNT_WEIGHT == 20
TURNOVER_WEIGHT == 10

\* revenue_norm * 40 + volume_norm * 30 + discount_eff_norm * 20 +
\* turnover_norm * 10 (lines 556-561)
WeightedRating(r, v, d, t) ==
    [i \in DOMAIN r |->
       FracAdd(FracAdd(FracScale(REVENUE_WEIGHT, r[i]), FracScale(VOLUME_WEIGHT, v[i])),
               FracAdd(FracScale(DISCOUNT_WEIGHT, d[i]), FracScale(TURNOVER_WEIGHT, t[i])))]

\* monthly_stats['success_rating']
SuccessRatings(rows) ==
    WeightedRating(MinMaxNorm(RevenueSignal(rows)), MinMaxNorm(VolumeSignal(rows)),
                   DiscountEfficiency(rows), MinMaxNorm(TurnoverSignal(rows)))

\* The monthly table with its success_rating column
WithSuccessRating(rows, ratings) ==
    [i \in DOMAIN rows |-> rows[i] @@ [success_rating |-> ratings[i]]]

\* The rows of a monthly table by success_rating descending, a NaN rating
\* last; ties tells where the rows of equal rating go
RECURSIVE InsertByRating(_, _, _)
InsertByRating(s, x, ties) ==
    IF s = <<>> THEN <<x>>
    ELSE IF \/ IsNaN(x.success_rating) /\ (IsNaN(Head(s).success_rating) => ties = KEEPS_TIES)
            \/ /\ ~IsNaN(x.success_rating) /\ ~IsNaN(Head(s).success_rating)
               /\ \/ FracLess(x.success_rating, Head(s).success_rating)
                  \/ /\ ~FracLess(Head(s).success_rating, x.success_rating)
                     /\ ties = KEEPS_TIES
         THEN <<Head(s)>> \o InsertByRating(Tail(s), x, ties)
    ELSE <<x>> \o s

RECURSIVE SortByRating(_, _)
SortByRating(s, ties) ==
    IF s = <<>> THEN <<>>
    ELSE InsertByRating(SortByRating(SubSeq(s, 1, Len(s) - 1), ties), s[Len(s)], ties)

\* sort_values('success_rating', ascending=False), as the monthly tab orders
\* the months
SortByRatingDesc(s) == SortByRating(s, quicksort)

\* nlargest(n, 'success_rating'): of rows of equal rating the first come first
nlargest(s, n) == SubSeq(SortByRating(s, KEEPS_TIES), 1, IF Len(s) < n THEN Len(s) ELSE n)

\* The monthly rows ordered by their rating
MonthlyTable_ByRating(rows) ==
    Table(MONTHLY_COLUMNS, SortByRatingDesc(WithSuccessRating(rows, SuccessRatings(rows))))

\* The monthly rows, each with its rating; the final sort_values('month_year')
\* leaves the rows in the ascending order groupby gave them
MonthlyTable(rows) == Table(MONTHLY_COLUMNS, WithSuccessRating(rows, SuccessRatings(rows)))

\* .fillna(0)
FillNa0(f) == IF IsNaN(f) THEN Frac(0, 1) ELSE f

\* EnhancedOrderAnalyzer.get_monthly_analysis
get_monthly_analysis(d) ==
    IF "accepted" \notin d.cols THEN Returned(EmptyDataFrame)
    ELSE IF "status" \notin d.cols THEN KeyError("status")
    ELSE
    LET delivered_df == WithStatus(d.rows, DELIVERED)
        col == RevenueColumn(d)
        missing == FirstMissing(<<"order_no", col, "discount_rub", "qty">>, d.cols)
        stats(k) ==
            LET g == GroupRows(delivered_df, "month_year", k)
                orders_count == ColCount(g, "order_no")
                total_revenue == ColSum(g, col)
                total_discount == ColSum(g, "discount_rub")
                total_quantity == ColSum(g, "qty")
            IN [month_year |-> k,
                orders_count |-> orders_count,
                total_revenue |-> total_revenue,
                avg_order_value |-> RoundTo(ColMean(g, col), MONEY_SCALE),
                total_discount |-> total_discount,
                total_quantity |-> total_quantity,
                avg_weight_kg |-> AvgWeight(d, g),
                total_weight_kg |->
                    IF "weight" \in d.cols THEN Frac(ColSum(g, "weight"), 1) ELSE FracNaN,
                revenue_per_order |-> Div(total_revenue, orders_count),
                discount_rate |-> FillNa0(Div(total_discount * 100, total_revenue)),
                avg_items_per_order |-> Div(total_quantity, orders_count),
                month |-> k]
        keys == GroupKeys(delivered_df, "month_year")
    IN IF Len(delivered_df) = 0 THEN Returned(EmptyDataFrame)
       ELSE IF missing # "" THEN KeyError(missing)
       ELSE Returned(MonthlyTable([i \in DOMAIN keys |-> stats(keys[i])]))

TOP_MONTHS == 3

\* What the monthly tab makes of the monthly analysis: the table itself for
\* the trend charts, its three best months and its ranking by rating
MonthlyView(t) ==
    [monthly_analysis |-> t.rows,
     top_months |-> nlargest(t.rows, TOP_MONTHS),
     monthly_analysis_rating |-> SortByRatingDesc(t.rows)]

\* The monthly tab of the dashboard
monthly_tab(d) ==
    IF get_monthly_analysis(d).raised # "none" THEN get_monthly_analysis(d)
    ELSE Returned(MonthlyView(get_monthly_analysis(d).value))

----------------------------------------------------------------------------
(* Metrics of OrderAnalyzer *)

\* (rows[b] - rows[a]).dt.total_seconds() / (24 * 3600), in ticks, of the rows
\* where it is not NaN: the rows with both timestamps
TickDiffs(rows, a, b) ==
    LET both == SelectSeq(rows, LAMBDA r : ~r[a].null /\ ~r[b].null)
    IN [i \in DOMAIN both |-> both[i][b].v - both[i][a].v]

\* Series.mean() of differences given in ticks, in days: NaN when there is none
MeanDays(ticks) == Frac(SumSeq(ticks), Len(ticks) * TicksPerDay)

\* Series.median() of differences given in ticks, in days
MedianDays(ticks) == Frac(SeqMedian(ticks).n, SeqMedian(ticks).d * TicksPerDay)

\* The dict returned when no order is delivered (lines 133-138)
NoDeliveryMetrics ==
    [avg_delivery_time |-> Frac(0, 1),
     median_delivery_time |-> Frac(0, 1),
     avg_processing_time |-> Frac(0, 1),
     avg_shipping_time |-> Frac(0, 1)]

\* The differences delivery_times is made of: those of every delivered order
\* with both timestamps (lines 141-142)
DeliveryTimes(delivered_orders) == TickDiffs(delivered_orders, "accepted", "delivered")

\* OrderAnalyzer.calculate_delivery_metrics
calculate_delivery_metrics(d) ==
    IF "status" \notin d.cols THEN KeyError("status")
    ELSE
    LET delivered_orders == WithStatus(d.rows, DELIVERED)
        missing == FirstMissing(<<"delivered", "accepted", "handed_over">>, d.cols)
    IN IF Len(delivered_orders) = 0 THEN Returned(NoDeliveryMetrics)
       ELSE IF missing # "" THEN KeyError(missing)
       ELSE Returned(
         [avg_delivery_time |-> MeanDays(DeliveryTimes(delivered_orders)),
          median_delivery_time |-> MedianDays(DeliveryTimes(delivered_orders)),
          avg_processing_time |->
              MeanDays(TickDiffs(delivered_orders, "accepted", "handed_over")),
          avg_shipping_time |->
              MeanDays(TickDiffs(delivered_orders, "handed_over", "delivered"))])

DAILY_ORDERS_COLUMNS == <<"date", "count">>

\* The frame whose rows are grouped by day (line 161)
DailyOrdersCohort(d) == d.rows

\* OrderAnalyzer.get_daily_orders
get_daily_orders(d) ==
    IF "accepted" \notin d.cols THEN KeyError("accepted")
    ELSE
    LET keys == GroupKeys(DailyOrdersCohort(d), "date")
    IN Returned(Table(DAILY_ORDERS_COLUMNS,
                      [i \in DOMAIN keys |->
                         [date |-> keys[i],
                          count |-> Len(GroupRows(DailyOrdersCohort(d), "date", keys[i]))]]))

STANDARD_DELIVERY_DAYS == 3     \* standard_delivery_days = 3

DELAYS_COLUMNS == <<"order_no", "delay_days">>

\* delay_days of a delivered order, in ticks: the delivery less the expected
\* delivery, which is the acceptance and the standard days (lines 175-179)
DelayTicks(r) == r.delivered.v - (r.accepted.v + Days(STANDARD_DELIVERY_DAYS))

\* OrderAnalyzer.get_delivery_delays
get_delivery_delays(d) ==
    IF "status" \notin d.cols THEN KeyError("status")
    ELSE
    LET delivered_orders == WithStatus(d.rows, DELIVERED)
        missing == FirstMissing(<<"accepted", "delivered", "order_no">>, d.cols)
        delays == SelectSeq(delivered_orders,
                            LAMBDA r : ~r.delivered.null /\ ~r.accepted.null
                                       /\ DelayTicks(r) > 0)
    IN IF Len(delivered_orders) = 0 THEN Returned(EmptyDataFrame)
       ELSE IF missing # "" THEN KeyError(missing)
       ELSE Returned(Table(DELAYS_COLUMNS,
                           [i \in DOMAIN delays |->
                              [order_no |-> delays[i].order_no,
                               delay_days |-> Frac(DelayTicks(delays[i]), TicksPerDay)]]))

\* What a call of get_delivery_delays gives: the method takes no argument
\* but self, so a call that passes the lead time raises TypeError
call_get_delivery_delays(d, expected_lead_days) ==
    IF expected_lead_days.null THEN get_delivery_delays(d)
    ELSE Raised("TypeError", "expected_lead_days")

\* The rows the filters of the filter tab select (lines 240-253): date_range
\* is <<first day, last day>>, or not a pair and then not applied
FilteredRows(d, date_range, selected_statuses, selected_products) ==
    SelectSeq(d.rows,
              LAMBDA r : /\ Len(date_range) = 2 =>
                              /\ ~r.accepted.null
                              /\ AcceptedDate(r).v >= date_range[1]
                              /\ AcceptedDate(r).v <= date_range[2]
                         /\ r.status \in selected_statuses
                         /\ r.product \in selected_products)

\* The filter tab of the dashboard once the rows are selected (lines 255-277):
\* a warning when there is none, else an OrderAnalyzer over the selection
\* and its delivery metrics
FilterView(d, filtered_rows) ==
    LET filtered_df == [cols |-> d.cols, rows |-> filtered_rows]
        filtered_analyzer == OrderPrepareData(filtered_df)
    IN IF Len(filtered_rows) = 0
       THEN Returned([filtered_df |-> filtered_df, warning |-> TRUE])
       ELSE IF filtered_analyzer.raised # "none" THEN filtered_analyzer
       ELSE IF calculate_delivery_metrics(filtered_analyzer.value).raised # "none"
            THEN calculate_delivery_metrics(filtered_analyzer.value)
       ELSE IF "amount" \notin d.cols THEN KeyError("amount")
       ELSE Returned([filtered_df |-> filtered_df,
                      warning |-> FALSE,
                      filtered_analyzer_df |-> filtered_analyzer.value,
                      filtered_metrics |->
                          calculate_delivery_metrics(filtered_analyzer.value).value,
                      avg_sum_filtered |-> ColMean(filtered_analyzer.value.rows, "amount"),
                      delivery_rate |->
                          Frac(Len(WithStatus(filtered_rows, DELIVERED)) * 100,
                               Len(filtered_rows))])

filter_tab(d, date_range, selected_statuses, selected_products) ==
    FilterView(d, FilteredRows(d, date_range, selected_statuses, selected_products))

----------------------------------------------------------------------------
(* Report generation *)

\* One section of the workbook: the call it makes and the keys it reads from
\* the dict the call returned
Section(res, reads) == [res |-> res, reads |-> reads]

\* What a section raises: the exception of its call, or KeyError for the
\* first key it reads that the dict lacks; "none" otherwise
SectionOutcome(sec) ==
    IF sec.res.raised # "none" THEN sec.res
    ELSE LET m == FirstMissing(sec.reads, DOMAIN sec.res.value)
         IN IF m # "" THEN KeyError(m) ELSE Returned("sheet")

RECURSIVE FirstFailure(_)
FirstFailure(sections) ==
    IF sections = <<>> THEN Returned("workbook")
    ELSE IF SectionOutcome(Head(sections)).raised # "none"
         THEN SectionOutcome(Head(sections))
    ELSE FirstFailure(Tail(sections))

\* EnhancedOrderAnalyzer.generate_enhanced_excel_report: the sheets in the
\* order they are filled
generate_enhanced_excel_report(d) ==
    FirstFailure(<<
        Section(get_basic_metrics(d),
                <<"total_orders", "delivered_orders", "cancelled_orders", "in_delivery",
                  "delivery_rate", "cancellation_rate", "total_revenue",
                  "avg_order_value", "total_discount_amount">>),
        Section(analyze_product_by_sku(d), <<>>),
        Section(get_sku_abc_analysis(d),
                <<"category_A", "revenue_share_A", "cumulative_A", "category_B",
                  "revenue_share_B", "cumulative_B", "category_C", "revenue_share_C">>),
        Section(get_sku_performance_metrics(d),
                <<"total_unique_skus", "avg_revenue_per_sku", "median_revenue_per_sku",
                  "top_10_percent_revenue_share", "gini_coefficient",
                  "high_revenue_skus", "high_revenue_share">>),
        Section(analyze_discounts(d),
                <<"orders_with_discount", "discount_percentage", "avg_discount_amount",
                  "avg_discount_percent", "total_savings", "max_discount_amount",
                  "max_discount_percent">>),
        Section(analyze_product_categories(d), <<>>),
        Section(analyze_delivery_performance(d),
                <<"avg_delivery_time", "median_delivery_time", "delivery_time_std",
                  "on_time_delivery_rate", "total_delivered">>),
        Section(analyze_weight_logistics(d), <<"weight_data_available">>),
        Section(get_monthly_analysis(d), <<>>)
    >>)

----------------------------------------------------------------------------
(* The session *)

NoFrame == [cols |-> {}, rows |-> <<>>]

\* The state once a dataset is loaded
Loaded(d) ==
    /\ raw = d
    /\ pc = "loaded"
    /\ analyzer = "none"
    /\ original_df = NoFrame
    /\ df = NoFrame
    /\ op = "none"
    /\ args = NaN
    /\ result = Returned("none")
    /\ quicksort \in SORT_BUILDS

\* EnhancedOrderAnalyzer(df) / OrderAnalyzer(df)
Construct ==
    \E kind \in {"Enhanced", "Order"} :
        LET prepared == _prepare_data(kind, raw)
        IN /\ pc = "loaded"
           /\ analyzer' = kind
           /\ op' = "__init__"
           /\ result' = IF prepared.raised = "none" THEN Returned("analyzer") ELSE prepared
           /\ pc' = IF prepared.raised = "none" THEN "ready" ELSE "failed"
           /\ df' = IF prepared.raised = "none" THEN prepared.value ELSE df
           /\ original_df' = IF kind = "Enhanced" THEN raw ELSE original_df
           /\ args' = NaN
           /\ UNCHANGED <<raw, quicksort>>

\* The operation works on self.df itself: the rows it selects are the rows
\* self.df is left with
FrameAfter_InPlace(name, d) ==
    IF name \in {"analyze_delivery_performance", "calculate_delivery_metrics"}
    THEN [d EXCEPT !.rows = WithStatus(d.rows, DELIVERED)]
    ELSE d

\* self.df after an operation: every operation takes its rows out of self.df
\* into a frame of its own (self.df[mask], .copy(), groupby) and adds its
\* columns (delivery_time, month_year, expected_delivery, delay_days) to
\* that frame; none assigns to self.df
FrameAfter(name, d) == d

\* A call of a method of the EnhancedOrderAnalyzer
EnhancedCall(name, res) ==
    /\ pc = "ready"
    /\ analyzer = "Enhanced"
    /\ op' = name
    /\ args' = NaN
    /\ result' = res
    /\ df' = FrameAfter(name, df)
    /\ UNCHANGED <<raw, pc, analyzer, original_df, quicksort>>

\* A call of a method of the OrderAnalyzer, or of a tab of its dashboard
OrderCall(name, a, res) ==
    /\ pc = "ready"
    /\ analyzer = "Order"
    /\ op' = name
    /\ args' = a
    /\ result' = res
    /\ df' = FrameAfter(name, df)
    /\ UNCHANGED <<raw, pc, analyzer, original_df, quicksort>>

GetBasicMetrics == EnhancedCall("get_basic_metrics", get_basic_metrics(df))
AnalyzeDiscounts == EnhancedCall("analyze_discounts", analyze_discounts(df))
AnalyzeProductCategories ==
    EnhancedCall("analyze_product_categories", analyze_product_categories(df))
AnalyzeProductBySku == EnhancedCall("analyze_product_by_sku", analyze_product_by_sku(df))
GetSkuAbcAnalysis == EnhancedCall("get_sku_abc_analysis", get_sku_abc_analysis(df))
GetSkuPerformanceMetrics ==
    EnhancedCall("get_sku_performance_metrics", get_sku_performance_metrics(df))
AnalyzeDeliveryPerformance ==
    EnhancedCall("analyze_delivery_performance", analyze_delivery_performance(df))
AnalyzeWeightLogistics ==
    EnhancedCall("analyze_weight_logistics", analyze_weight_logistics(df))
GetRegionalAnalysis == EnhancedCall("get_regional_analysis", get_regional_analysis(df))
GetTimeSeriesAnalysis ==
    EnhancedCall("get_time_series_analysis", get_time_series_analysis(df))
GetMonthlyAnalysis == EnhancedCall("get_monthly_analysis", get_monthly_analysis(df))
GenerateEnhancedExcelReport ==
    EnhancedCall("generate_enhanced_excel_report", generate_enhanced_excel_report(df))
MonthlyTab == EnhancedCall("monthly_tab", monthly_tab(df))

CalculateDeliveryMetrics ==
    OrderCall("calculate_delivery_metrics", NaN, calculate_delivery_metrics(df))
GetDailyOrders == OrderCall("get_daily_orders", NaN, get_daily_orders(df))

\* The lead times a caller may want to pass
LeadDays == {1, 3, 5}

\* get_delivery_delays(), or get_delivery_delays(expected_lead_days=k)
GetDeliveryDelays ==
    \E a \in {NaN} \cup {Num(k) : k \in LeadDays} :
        OrderCall("get_delivery_delays", a, call_get_delivery_delays(df, a))

\* The values of a column of the record set
ColumnValues(c) == {df.rows[i][c] : i \in DOMAIN df.rows}

\* The periods the date input of the filter tab may hold: a pair of days, or
\* one day while the user is picking the second
DateRanges == {<<>>, <<0>>, <<0, 0>>, <<0, 1>>, <<1, 1>>}

\* The filter tab, with what the user selected
FilterTab ==
    \E date_range \in DateRanges :
    \E selected_statuses \in SUBSET ColumnValues("status") :
    \E selected_products \in SUBSET ColumnValues("product") :
        OrderCall("filter_tab", NaN,
                  filter_tab(df, date_range, selected_statuses, selected_products))

\* The metrics operations of EnhancedOrderAnalyzer
METRICS_OPERATIONS ==
    {"get_basic_metrics", "analyze_discounts", "analyze_product_categories",
     "analyze_product_by_sku", "get_sku_abc_analysis", "get_sku_performance_metrics",
     "analyze_delivery_performance", "analyze_weight_logistics",
     "get_regional_analysis", "get_time_series_analysis", "get_monthly_analysis"}

Next ==
    \/ Construct
    \/ GetBasicMetrics
    \/ AnalyzeDiscounts
    \/ AnalyzeProductCategories
    \/ AnalyzeProductBySku
    \/ GetSkuAbcAnalysis
    \/ GetSkuPerformanceMetrics
    \/ AnalyzeDeliveryPerformance
    \/ AnalyzeWeightLogistics
    \/ GetRegionalAnalysis
    \/ GetTimeSeriesAnalysis
    \/ GetMonthlyAnalysis
    \/ GenerateEnhancedExcelReport

\* The calls of the overview and discount tabs and of the report
NextMetrics ==
    \/ Construct
    \/ GetBasicMetrics
    \/ AnalyzeDiscounts
    \/ GenerateEnhancedExcelReport

\* The calls of the delivery tab and of the report
NextDelivery ==
    \/ Construct
    \/ AnalyzeDeliveryPerformance
    \/ GenerateEnhancedExcelReport

\* The logistics tab
NextWeight ==
    \/ Construct
    \/ AnalyzeWeightLogistics

\* The monthly analysis and the tab that shows it
NextMonthly ==
    \/ Construct
    \/ GetMonthlyAnalysis
    \/ MonthlyTab

\* The SKU aggregate and the analyses made of it
NextSku ==
    \/ Construct
    \/ AnalyzeProductBySku
    \/ GetSkuAbcAnalysis
    \/ GetSkuPerformanceMetrics

\* Construction, and the call that reads the parsed discount columns
NextParse ==
    \/ Construct
    \/ AnalyzeDiscounts

\* Construction alone, and the first call made on the record set
NextNormalize ==
    \/ Construct
    \/ GetBasicMetrics

\* The calls of the delivery tab of the OrderAnalyzer dashboard
NextOrder ==
    \/ Construct
    \/ CalculateDeliveryMetrics
    \/ GetDailyOrders
    \/ GetDeliveryDelays

\* The filter tab, which constructs an analyzer of its own over a selection
NextFilter ==
    \/ Construct
    \/ CalculateDeliveryMetrics
    \/ FilterTab

\* The daily and monthly series of both analyzers
NextSeries ==
    \/ Construct
    \/ GetTimeSeriesAnalysis
    \/ GetMonthlyAnalysis
    \/ GetDailyOrders

\* Every metrics operation of both analyzers
NextSession ==
    \/ Construct
    \/ GetBasicMetrics
    \/ AnalyzeDiscounts
    \/ AnalyzeProductCategories
    \/ AnalyzeProductBySku
    \/ GetSkuAbcAnalysis
    \/ GetSkuPerformanceMetrics
    \/ AnalyzeDeliveryPerformance
    \/ AnalyzeWeightLogistics
    \/ GetRegionalAnalysis
    \/ GetTimeSeriesAnalysis
    \/ GetMonthlyAnalysis
    \/ CalculateDeliveryMetrics
    \/ GetDailyOrders
    \/ GetDeliveryDelays

----------------------------------------------------------------------------
(* Datasets *)

\* A delivered order of the extended export, accepted on day 0 and delivered
\* two days later, without a discount
DefaultRow ==
    [order_no |-> Num(1),
     status |-> DELIVERED,
     accepted |-> RawDate("iso", Days(0)),
     shipped |-> RawDate("iso", Days(1)),
     handed_over |-> RawDate("iso", Days(1)),
     delivered |-> RawDate("iso", Days(2)),
     amount |-> RawNum("plain", 1000),
     product |-> Num(1),
     qty |-> RawNum("plain", 1),
     sku |-> Num(1),
     price |-> RawNum("plain", 1000),
     discount_pct |-> RawNum("plain", 0),
     discount_rub |-> RawNum("plain", 0),
     weight |-> RawNum("plain", 10),
     region |-> Num(1)]

Datasets(schemas, rows) ==
    {DataFrame(c, s) : c \in schemas, s \in SeqsUpTo(rows, MaxRows)}

\* Orders of every status, with and without an amount and a discount
MetricsRows ==
    {[DefaultRow EXCEPT !.status = x[1], !.amount = x[2], !.discount_rub = x[3],
                        !.discount_pct = x[4]] :
        x \in {<<DELIVERED, RawNum("plain", 1000), RawNum("plain", 0), RawNum("plain", 0)>>,
               <<DELIVERED, RawNum("plain", 500), RawNum("plain", 300), RawNum("plain", 30)>>,
               <<DELIVERED, RawNum("bad", 0), RawNum("plain", 0), RawNum("plain", 0)>>,
               <<CANCELLED, RawNum("plain", 500), RawNum("plain", 0), RawNum("plain", 0)>>,
               <<CANCELLED, RawNum("plain", 1000), RawNum("plain", 300), RawNum("bad", 0)>>,
               <<IN_DELIVERY, RawNum("plain", 500), RawNum("empty", 0), RawNum("empty", 0)>>,
               <<"Vozvrat", RawNum("plain", 1000), RawNum("plain", 0), RawNum("plain", 0)>>}}

\* Delivered orders by the time the delivery took, and a cancelled order
DeliveryRows ==
    {[DefaultRow EXCEPT !.delivered = x] :
        x \in {RawDate("empty", 0), RawDate("iso", Days(0 - 1)), RawDate("iso", Days(0)),
               RawDate("iso", Days(2)), RawDate("iso", Days(5)),
               RawDate("iso", Days(5) + 1), RawDate("iso", Days(30) + 1),
               RawDate("iso", Days(35))}}
    \cup {[DefaultRow EXCEPT !.status = CANCELLED, !.discount_rub = RawNum("plain", 300),
                             !.discount_pct = RawNum("plain", 30)]}

\* Orders of a few exports, with the optional columns there or not
SchemaRows ==
    {DefaultRow,
     [DefaultRow EXCEPT !.sku = Num(2), !.weight = RawNum("empty", 0), !.region = Num(2),
                        !.discount_rub = RawNum("plain", 300),
                        !.discount_pct = RawNum("plain", 30), !.amount = RawNum("plain", 500)],
     [DefaultRow EXCEPT !.status = CANCELLED, !.weight = RawNum("empty", 0)],
     [DefaultRow EXCEPT !.status = CANCELLED, !.weight = RawNum("plain", 25)]}

Schemas ==
    {BASIC_SCHEMA, EXTENDED_SCHEMA, EXTENDED_SCHEMA \cup {"region"},
     EXTENDED_SCHEMA \ {"sku"}, EXTENDED_SCHEMA \ {"weight"}}

\* Orders whose acceptance timestamp is in either export format, or in none
NormalizeRows ==
    {[DefaultRow EXCEPT !.status = s, !.accepted = a] :
        s \in {DELIVERED, CANCELLED},
        a \in {RawDate("iso", Days(1)), RawDate("dmy", Days(1)), RawDate("bad", 0),
               RawDate("empty", 0)}}

\* Orders whose dates and numbers are written in the ways the exports write
\* them: either date format or none, a decimal comma, thousands spaces, a
\* percent sign, or no number
ParseRows ==
    {DefaultRow,
     [DefaultRow EXCEPT !.accepted = RawDate("dmy", Days(1)),
                        !.delivered = RawDate("dmy", Days(3)),
                        !.amount = RawNum("space", 1234)],
     [DefaultRow EXCEPT !.accepted = RawDate("bad", 0)],
     [DefaultRow EXCEPT !.delivered = RawDate("bad", 0), !.qty = RawNum("comma", 2)],
     [DefaultRow EXCEPT !.accepted = RawDate("dmy", Days(1)), !.amount = RawNum("comma", 500)],
     [DefaultRow EXCEPT !.amount = RawNum("bad", 0), !.weight = RawNum("space", 1200)],
     [DefaultRow EXCEPT !.discount_pct = RawNum("pct", 45),
                        !.discount_rub = RawNum("plain", 300)],
     [DefaultRow EXCEPT !.accepted = RawDate("dmy", Days(1)),
                        !.discount_pct = RawNum("plain", 30),
                        !.discount_rub = RawNum("comma", 200)]}

\* Delivered orders of three SKUs, with revenues that tie, differ or are
\* zero, and a cancelled order
SkuRows ==
    {[DefaultRow EXCEPT !.sku = Num(x[1]), !.amount = RawNum("plain", x[2])] :
        x \in {<<1, 100>>, <<2, 50>>, <<3, 10>>, <<1, 50>>, <<2, 100>>, <<1, 0>>}}
    \cup {[DefaultRow EXCEPT !.status = CANCELLED, !.sku = Num(3)]}

\* Delivered orders of two SKUs one of which holds most of the revenue: just
\* above four fifths of it (16001 of 20001), far above (100 of 110), or all
\* of it; and a cancelled order of a third SKU
DominantSkuRows ==
    {[DefaultRow EXCEPT !.sku = Num(x[1]), !.amount = RawNum("plain", x[2])] :
        x \in {<<1, 16001>>, <<2, 4000>>, <<1, 100>>, <<2, 10>>, <<2, 0>>}}
    \cup {[DefaultRow EXCEPT !.status = CANCELLED, !.sku = Num(3),
                             !.amount = RawNum("plain", 16001)]}

\* The first instant of a month of the calendar
MonthStart(m) == Days(m * DaysPerMonth)

\* Orders accepted in three months, with and without a discount (one
\* discount above the amount paid), and an order without a readable
\* acceptance date
MonthlyRows ==
    {[DefaultRow EXCEPT !.accepted = RawDate("iso", MonthStart(x[1])),
                        !.delivered = RawDate("iso", MonthStart(x[1]) + Days(2)),
                        !.amount = RawNum("plain", x[2]),
                        !.discount_rub = RawNum("plain", x[3]),
                        !.qty = RawNum("plain", x[4])] :
        x \in {<<0, 100, 0, 1>>, <<0, 200, 50, 2>>, <<1, 200, 0, 1>>, <<1, 100, 300, 1>>,
               <<2, 100, 0, 2>>}}
    \cup {[DefaultRow EXCEPT !.status = CANCELLED,
                             !.accepted = RawDate("iso", MonthStart(1))],
          [DefaultRow EXCEPT !.accepted = RawDate("bad", 0)]}

\* Orders of weights below, at and above the two limits (0.5 kg and 2.0 kg),
\* and orders without a weight
WeightRows ==
    {[DefaultRow EXCEPT !.weight = x] :
        x \in {RawNum("plain", 3), RawNum("plain", 5), RawNum("comma", 6),
               RawNum("plain", 20), RawNum("plain", 21), RawNum("empty", 0),
               RawNum("bad", 0)}}

\* A delivered order of the basic export, its four timestamps written day
\* first
DmyRow ==
    [DefaultRow EXCEPT !.accepted = RawDate("dmy", Days(0)),
                       !.shipped = RawDate("dmy", Days(1)),
                       !.handed_over = RawDate("dmy", Days(1)),
                       !.delivered = RawDate("dmy", Days(2))]

\* Delivered orders by the time the delivery took (before, at and after the
\* three standard days, before the acceptance, after more than 30 days, or
\* not known), and a cancelled order
OrderRows ==
    {[DmyRow EXCEPT !.delivered = x] :
        x \in {RawDate("empty", 0), RawDate("dmy", Days(0 - 1)), RawDate("dmy", Days(2)),
               RawDate("dmy", Days(3)), RawDate("dmy", Days(3) + 1),
               RawDate("dmy", Days(35))}}
    \cup {[DmyRow EXCEPT !.status = CANCELLED]}

\* Orders of a few statuses, amounts and acceptance days, one of them in the
\* other date format
FilterRows ==
    {DmyRow,
     [DmyRow EXCEPT !.status = IN_DELIVERY, !.delivered = RawDate("empty", 0),
                    !.amount = RawNum("space", 1234), !.product = Num(2)],
     [DmyRow EXCEPT !.status = CANCELLED, !.accepted = RawDate("dmy", Days(1)),
                    !.amount = RawNum("bad", 0), !.qty = RawNum("comma", 2)],
     DefaultRow}

\* Orders accepted on a few days of two months, in either date format,
\* delivered or not, one of them without an order number
SeriesRows ==
    {[DefaultRow EXCEPT !.order_no = x[1], !.status = x[2], !.accepted = x[3]] :
        x \in {<<Num(1), DELIVERED, RawDate("iso", Days(0))>>,
               <<Num(2), DELIVERED, RawDate("iso", Days(0) + 1)>>,
               <<Num(3), DELIVERED, RawDate("iso", MonthStart(1))>>,
               <<Num(4), CANCELLED, RawDate("iso", Days(0))>>,
               <<NaN, DELIVERED, RawDate("iso", Days(0))>>,
               <<Num(6), DELIVERED, RawDate("dmy", Days(1))>>,
               <<Num(7), CANCELLED, RawDate("dmy", Days(1))>>}}

\* Orders of both exports
SessionRows ==
    {DefaultRow,
     DmyRow,
     [DmyRow EXCEPT !.status = CANCELLED, !.discount_rub = RawNum("plain", 300),
                    !.discount_pct = RawNum("plain", 30)],
     [DmyRow EXCEPT !.accepted = RawDate("dmy", Days(1)),
                    !.delivered = RawDate("dmy", Days(5) + 1), !.sku = Num(2)]}

\* Orders accepted in two months: months of the same revenue, quantity and
\* orders, a month with a discount and no revenue, and an order without a
\* readable amount
RatingRows ==
    {[DefaultRow EXCEPT !.accepted = RawDate("iso", MonthStart(x[1])),
                        !.delivered = RawDate("iso", MonthStart(x[1]) + Days(2)),
                        !.amount = x[2],
                        !.discount_rub = RawNum("plain", x[3])] :
        x \in {<<0, RawNum("plain", 100), 0>>, <<1, RawNum("plain", 100), 0>>,
               <<1, RawNum("plain", 200), 50>>, <<0, RawNum("plain", 0), 300>>,
               <<0, RawNum("bad", 0), 0>>}}

Init == \E d \in Datasets(Schemas, SchemaRows) : Loaded(d)
InitOrder == \E d \in Datasets({BASIC_SCHEMA}, OrderRows) : Loaded(d)
InitFilter == \E d \in Datasets({BASIC_SCHEMA}, FilterRows) : Loaded(d)
InitSeries == \E d \in Datasets({EXTENDED_SCHEMA}, SeriesRows) : Loaded(d)
InitSession == \E d \in Datasets({EXTENDED_SCHEMA}, SessionRows) : Loaded(d)
InitRating == \E d \in Datasets({EXTENDED_SCHEMA}, RatingRows) : Loaded(d)
InitWeight == \E d \in Datasets({EXTENDED_SCHEMA}, WeightRows) : Loaded(d)
InitMonthly == \E d \in Datasets({EXTENDED_SCHEMA}, MonthlyRows) : Loaded(d)
InitDominant == \E d \in Datasets({EXTENDED_SCHEMA}, DominantSkuRows) : Loaded(d)
InitSku == \E d \in Datasets({EXTENDED_SCHEMA}, SkuRows) : Loaded(d)
InitParse == \E d \in Datasets({EXTENDED_SCHEMA}, ParseRows) : Loaded(d)
InitMetrics == \E d \in Datasets({EXTENDED_SCHEMA}, MetricsRows) : Loaded(d)
InitDelivery == \E d \in Datasets({EXTENDED_SCHEMA}, DeliveryRows) : Loaded(d)
InitNormalize == \E d \in Datasets({EXTENDED_SCHEMA}, NormalizeRows) : Loaded(d)

Spec == Init /\ [][Next]_vars
SpecMetrics == InitMetrics /\ [][NextMetrics]_vars
SpecDelivery == InitDelivery /\ [][NextDelivery]_vars
SpecNormalize == InitNormalize /\ [][NextNormalize]_vars
SpecParse == InitParse /\ [][NextParse]_vars
SpecDominant == InitDominant /\ [][NextSku]_vars
SpecSku == InitSku /\ [][NextSku]_vars
SpecMonthly == InitMonthly /\ [][NextMonthly]_vars
SpecWeight == InitWeight /\ [][NextWeight]_vars
SpecOrder == InitOrder /\ [][NextOrder]_vars
SpecFilter == InitFilter /\ [][NextFilter]_vars
SpecSeries == InitSeries /\ [][NextSeries]_vars
SpecSession == InitSession /\ [][NextSession]_vars
SpecRating == InitRating /\ [][NextMonthly]_vars

----------------------------------------------------------------------------
(* Properties *)

RECURSIVE SumOver(_, _)
\* The sum of f[i] over the i of the finite set S
SumOver(f, S) ==
    IF S = {} THEN 0
    ELSE LET i == CHOOSE x \in S : TRUE IN f[i] + SumOver(f, S \ {i})

\* The records of the record set that are delivered
DeliveredIdx == {i \in DOMAIN df.rows : df.rows[i].status = DELIVERED}

\* The rows of the loaded dataset, by status and raw amount
RawStatusAmount == [i \in DOMAIN raw.rows |-> <<raw.rows[i].status, raw.rows[i].amount>>]

BasicMetricsReturned == op = "get_basic_metrics" /\ result.raised = "none"

\* Scenario A: one delivered record of amount 1000, one cancelled of amount 500
ScenarioA ==
    RawStatusAmount = << <<DELIVERED, RawNum("plain", 1000)>>,
                         <<CANCELLED, RawNum("plain", 500)>> >>

\* C1: get_basic_metrics sums total_revenue over exactly the delivered
\* records (a record without a parsed amount adds nothing) and
\* avg_order_value is the mean of the amounts of that cohort; scenario A
\* gives total 2, delivered 1, cancelled 1, delivery_rate 50, total_revenue
\* 1000, avg_order_value 1000.
C1_RevenueOverDeliveredCohort ==
    BasicMetricsReturned =>
        LET withAmount == {i \in DeliveredIdx : ~df.rows[i].amount.null}
            amounts == [i \in DOMAIN df.rows |-> df.rows[i].amount.v]
            v == result.value
        IN /\ v.total_revenue = SumOver(amounts, withAmount)
           /\ DeliveredIdx = {} => FracEq(v.avg_order_value, 0)
           /\ withAmount # {} =>
                 /\ IsFinite(v.avg_order_value)
                 /\ v.avg_order_value.n * Cardinality(withAmount)
                      = SumOver(amounts, withAmount) * v.avg_order_value.d
           /\ ScenarioA =>
                 /\ v.total_orders = 2
                 /\ v.delivered_orders = 1
                 /\ v.cancelled_orders = 1
                 /\ FracEq(v.delivery_rate, 50)
                 /\ v.total_revenue = 1000
                 /\ FracEq(v.avg_order_value, 1000)

C1_Witness == BasicMetricsReturned /\ ScenarioA

\* C2: the delivery_rate and cancellation_rate get_basic_metrics returns are
\* each within [0, 100]; with zero records both are 0 and nothing is divided
\* by zero.
C2_RatesWithinBounds ==
    /\ result.raised # "ZeroDivisionError"
    /\ BasicMetricsReturned =>
          /\ FracGe(result.value.delivery_rate, 0)
          /\ FracLe(result.value.delivery_rate, 100)
          /\ FracGe(result.value.cancellation_rate, 0)
          /\ FracLe(result.value.cancellation_rate, 100)
          /\ Len(df.rows) = 0 =>
                /\ FracEq(result.value.delivery_rate, 0)
                /\ FracEq(result.value.cancellation_rate, 0)

C2_Witness == BasicMetricsReturned /\ Len(df.rows) = 0

DeliveryPerformanceReturned == op = "analyze_delivery_performance" /\ result.raised = "none"

\* The ticks between acceptance and delivery of a record with both timestamps
Elapsed(r) == r.delivered.v - r.accepted.v

\* C3 as claimed: a record is retained only if it is delivered, has a
\* delivered_at and its elapsed time, fractions of a day counted, is within
\* [0, 30] days.
C3_ElapsedWithin30Days ==
    DeliveryPerformanceReturned =>
        \A i \in DOMAIN RetainedDeliveries(df) :
            LET r == RetainedDeliveries(df)[i]
            IN /\ r.status = DELIVERED
               /\ ~r.delivered.null
               /\ Elapsed(r) >= 0
               /\ Elapsed(r) <= Days(30)

\* C3 as amended: a record is retained only if it is delivered, has a
\* delivered_at and its elapsed time in whole days, rounded down, is within
\* [0, 30]: the elapsed time itself is at least 0 and less than 31 days.
C3_WholeDaysWithin30 ==
    DeliveryPerformanceReturned =>
        \A i \in DOMAIN RetainedDeliveries(df) :
            LET r == RetainedDeliveries(df)[i]
            IN /\ r.status = DELIVERED
               /\ ~r.delivered.null
               /\ ~r.accepted.null
               /\ Elapsed(r) >= 0
               /\ Elapsed(r) < Days(31)

\* A retained record delivered more than 30 days after its acceptance
C3_Witness ==
    /\ DeliveryPerformanceReturned
    /\ \E i \in DOMAIN RetainedDeliveries(df) :
          Elapsed(RetainedDeliveries(df)[i]) > Days(30)

\* The records of the record set whose whole days of delivery are within [lo, hi]
DeliveredWithin(lo, hi) ==
    {i \in DeliveredIdx :
        /\ ~df.rows[i].delivered.null
        /\ ~df.rows[i].accepted.null
        /\ Elapsed(df.rows[i]) >= Days(lo)
        /\ Elapsed(df.rows[i]) < Days(hi + 1)}

\* Scenario B: three delivered records that took 2, 35 and -1 days
ScenarioB ==
    /\ Len(raw.rows) = 3
    /\ \A i \in 1..3 : raw.rows[i].status = DELIVERED /\ raw.rows[i].accepted = RawDate("iso", 0)
    /\ [i \in 1..3 |-> raw.rows[i].delivered]
         = <<RawDate("iso", Days(2)), RawDate("iso", Days(35)), RawDate("iso", Days(0 - 1))>>

IsZero(x) == x = 0 \/ x = Frac(0, 1)

DISCOUNT_FIELDS ==
    {"orders_with_discount", "discount_percentage", "avg_discount_amount",
     "avg_discount_percent", "total_savings", "max_discount_amount",
     "max_discount_percent"}

\* C5: when no record has a discount above 0, analyze_discounts returns
\* every one of its seven fields, the two maxima included, with value zero.
C5_NoDiscountAllFieldsZero ==
    (/\ op = "analyze_discounts"
     /\ result.raised = "none"
     /\ \A i \in DOMAIN df.rows :
           df.rows[i].discount_rub.null \/ df.rows[i].discount_rub.v <= 0)
    => /\ DISCOUNT_FIELDS \subseteq DOMAIN result.value
       /\ \A f \in DISCOUNT_FIELDS \cap DOMAIN result.value : IsZero(result.value[f])

DELIVERY_FIELDS ==
    {"avg_delivery_time", "median_delivery_time", "delivery_time_std",
     "on_time_delivery_rate", "total_delivered"}

\* C6: when the delivered cohort is empty, before or after the [0, 30] day
\* filter, analyze_delivery_performance returns the fields of a cohort that
\* is not empty, total_delivered included, all zero.
C6_EmptyCohortAllFieldsZero ==
    (DeliveryPerformanceReturned /\ DeliveredWithin(0, 30) = {})
    => /\ DELIVERY_FIELDS \subseteq DOMAIN result.value
       /\ \A f \in DELIVERY_FIELDS \cap DOMAIN result.value : IsZero(result.value[f])

\* A metrics operation of the EnhancedOrderAnalyzer was called
MetricsCalled == analyzer = "Enhanced" /\ op \in METRICS_OPERATIONS

\* C7: on a dataset of zero records every metrics operation of the
\* EnhancedOrderAnalyzer returns, and never raises.
C7_EmptyDatasetNeverRaises ==
    (MetricsCalled /\ Len(raw.rows) = 0) => result.raised = "none"

\* C8: on a dataset of the basic export the EnhancedOrderAnalyzer is
\* constructed and every metrics operation completes without error.
C8_BasicSchemaCompletes ==
    raw.cols = BASIC_SCHEMA =>
        /\ op = "__init__" => result.raised = "none"
        /\ MetricsCalled => result.raised = "none"

\* The record sets of the datasets of Init
PreparedDatasets ==
    {EnhancedPrepareData(d).value : d \in Datasets(Schemas, SchemaRows)}

NoDelivered(d) == \A i \in DOMAIN d.rows : d.rows[i].status # DELIVERED

\* What each aggregate returns when its column is there and its cohort empty
ComputedEmptySku ==
    {analyze_product_by_sku(d) :
        d \in {x \in PreparedDatasets : "sku" \in x.cols /\ NoDelivered(x)}}
ComputedEmptyWeight ==
    {analyze_weight_logistics(d) :
        d \in {x \in PreparedDatasets :
                  "weight" \in x.cols /\ \A i \in DOMAIN x.rows : x.rows[i].weight.null}}
ComputedEmptyRegional ==
    {get_regional_analysis(d) :
        d \in {x \in PreparedDatasets : "region" \in x.cols /\ NoDelivered(x)}}

\* C9: what the SKU aggregate, the weight logistics and the regional
\* analysis return when their column is absent is never a value they return
\* when the column is there and the cohort is empty.
C9_UnavailableDistinctFromEmpty ==
    analyzer = "Enhanced" =>
        /\ (op = "analyze_product_by_sku" /\ "sku" \notin df.cols)
              => result \notin ComputedEmptySku
        /\ (op = "analyze_weight_logistics" /\ "weight" \notin df.cols)
              => result \notin ComputedEmptyWeight
        /\ (op = "get_regional_analysis" /\ "region" \notin df.cols)
              => result \notin ComputedEmptyRegional

\* The rows of the loaded dataset whose acceptance timestamp the constructed
\* analyzer parses
ParseableAccepted ==
    {i \in DOMAIN raw.rows :
        raw.rows[i].accepted.fmt = (IF analyzer = "Enhanced" THEN "iso" ELSE "dmy")}

\* C10: after normalization by either analyzer every record has an
\* accepted_at: the rows whose acceptance timestamp is missing or unparseable
\* are excluded and every other row is kept.
C10_AcceptedNeverNull ==
    pc = "ready" =>
        /\ \A i \in DOMAIN df.rows : ~df.rows[i].accepted.null
        /\ Len(df.rows) = Cardinality(ParseableAccepted)

\* The date columns both analyzers normalize
COMMON_DATE_COLUMNS == ENHANCED_DATE_COLUMNS \cap ORDER_DATE_COLUMNS

\* The date columns of the rows of a frame
DatesOf(rows) == [i \in DOMAIN rows |-> [c \in COMMON_DATE_COLUMNS |-> rows[i][c]]]

\* The timestamps the loaded rows are written with: a text in either export
\* format is that timestamp, any other text is no timestamp
WrittenDates ==
    [i \in DOMAIN raw.rows |->
        [c \in COMMON_DATE_COLUMNS |->
            IF raw.rows[i][c].fmt \in {"iso", "dmy"} THEN Num(raw.rows[i][c].t) ELSE NaN]]

\* C11: construction never fails on a date text, and in every row of the
\* record set every date column holds the timestamp its text is written with
\* in either export format, and null for a text in neither format (the
\* OrderAnalyzer keeps the rows whose acceptance is not null).
C11_BothDateFormatsParsed ==
    /\ op = "__init__" => result.raised = "none"
    /\ pc = "ready" =>
          DatesOf(df.rows) =
             IF analyzer = "Enhanced" THEN WrittenDates
             ELSE SelectSeq(WrittenDates, LAMBDA r : ~r.accepted.null)

\* The number a number text is written with, whatever its decimal separator
\* and thousands spaces; null for a text that is no number
WrittenNumber(cell) ==
    IF cell.kind \in {"plain", "comma", "space"} THEN Num(cell.v) ELSE NaN

\* The numeric columns the constructed analyzer normalizes
NumericColumns ==
    IF analyzer = "Enhanced" THEN ENHANCED_NUMERIC_COLUMNS \ {"discount_pct"}
    ELSE ORDER_NUMERIC_COLUMNS

\* C12: in both analyzers construction never fails on a number text, and a
\* text with a decimal comma, with or without thousands spaces, normalizes to
\* its number and a text that is no number to null (stated on the datasets
\* of which no row is dropped, where rows correspond one to one).
C12_DecimalCommaAndSpaces ==
    /\ op = "__init__" => result.raised = "none"
    /\ (pc = "ready" /\ Len(df.rows) = Len(raw.rows)) =>
          \A i \in DOMAIN raw.rows : \A c \in NumericColumns :
              df.rows[i][c] = WrittenNumber(raw.rows[i][c])

\* C13: a discount percent written with a trailing percent sign normalizes
\* to its number, and analyze_discounts counts it in the maximum of the
\* discount percents of the discounted orders.
C13_PercentSignStripped ==
    (pc = "ready" /\ analyzer = "Enhanced") =>
        \A i \in DOMAIN raw.rows :
            raw.rows[i].discount_pct.kind = "pct" =>
                /\ df.rows[i].discount_pct = Num(raw.rows[i].discount_pct.v)
                /\ (/\ op = "analyze_discounts"
                    /\ result.raised = "none"
                    /\ ~df.rows[i].discount_rub.null
                    /\ df.rows[i].discount_rub.v > 0)
                   => FracGe(result.value.max_discount_percent,
                             raw.rows[i].discount_pct.v)

\* The SKUs of the delivered records
DeliveredSkus == {df.rows[i].sku.v : i \in {j \in DeliveredIdx : ~df.rows[j].sku.null}}

\* The revenue of a SKU: the amounts of its delivered records
SkuRevenue(k) ==
    SumOver([i \in DOMAIN df.rows |-> IF df.rows[i].amount.null THEN 0 ELSE df.rows[i].amount.v],
            {i \in DeliveredIdx : df.rows[i].sku = Num(k)})

SkuRevenues == [k \in DeliveredSkus |-> SkuRevenue(k)]
TotalSkuRevenue == SumOver(SkuRevenues, DeliveredSkus)

\* The SKUs of the three categories the ABC analysis returned, A first
AbcListing ==
    result.value.category_A \o result.value.category_B \o result.value.category_C

\* The place of a SKU in that listing
RankOf(k) == CHOOSE i \in DOMAIN AbcListing : AbcListing[i] = k

\* The SKUs ranked at or before k: those listed no later than k
RankedUpTo(k) == {j \in DeliveredSkus : RankOf(j) <= RankOf(k)}

\* The share of a SKU in the total revenue, in hundredths of a percent
ShareHundredths(k) == RoundTo(Frac(SkuRevenues[k] * 100, TotalSkuRevenue), 100).n

\* The running share up to a SKU, in hundredths of a percent
CumulativeHundredths(k) ==
    SumOver([j \in DeliveredSkus |-> ShareHundredths(j)], RankedUpTo(k))

\* The category the thresholds give a SKU
ThresholdCategory(k) ==
    IF TotalSkuRevenue > 0 /\ CumulativeHundredths(k) <= 8000 THEN "A"
    ELSE IF TotalSkuRevenue > 0 /\ CumulativeHundredths(k) <= 9500 THEN "B"
    ELSE "C"

AbcReturned ==
    /\ analyzer = "Enhanced"
    /\ op = "get_sku_abc_analysis"
    /\ result.raised = "none"
    /\ DeliveredSkus # {}

\* The members of a sequence
Range(s) == {s[i] : i \in DOMAIN s}

\* Three SKUs with revenues 100, 50 and 10
ScenarioAbc ==
    /\ DeliveredSkus = {1, 2, 3}
    /\ SkuRevenues = [k \in {1, 2, 3} |-> IF k = 1 THEN 100 ELSE IF k = 2 THEN 50 ELSE 10]

C15_AbcPartitionSharesSum100 ==
    AbcReturned =>
        LET v == result.value
            sum == v.revenue_share_A.n + v.revenue_share_B.n + v.revenue_share_C.n
        IN /\ Range(v.category_A) \cup Range(v.category_B) \cup Range(v.category_C)
                = DeliveredSkus
           /\ Len(v.category_A) + Len(v.category_B) + Len(v.category_C)
                = Cardinality(DeliveredSkus)
           /\ v.revenue_share_A.d = 100 /\ v.revenue_share_B.d = 100
           /\ v.revenue_share_C.d = 100
           /\ 2 * (sum - 10000) <= Cardinality(DeliveredSkus)
           /\ 2 * (10000 - sum) <= Cardinality(DeliveredSkus)

SkuPerformanceReturned ==
    /\ analyzer = "Enhanced"
    /\ op = "get_sku_performance_metrics"
    /\ result.raised = "none"
    /\ DeliveredSkus # {}

\* C16: for a SKU aggregate that is not empty (its revenues are not
\* negative) the gini_coefficient of get_sku_performance_metrics is within
\* [0, 1], and it is 0 when all SKUs have the same revenue.
C16_GiniWithinUnitInterval ==
    SkuPerformanceReturned =>
        /\ FracGe(result.value.gini_coefficient, 0)
        /\ FracLe(result.value.gini_coefficient, 1)
        /\ (\A j, k \in DeliveredSkus : SkuRevenues[j] = SkuRevenues[k])
              => FracEq(result.value.gini_coefficient, 0)

\* Two SKUs or more of one positive revenue
C16_Witness ==
    /\ SkuPerformanceReturned
    /\ Cardinality(DeliveredSkus) >= 2
    /\ \A j, k \in DeliveredSkus : SkuRevenues[j] = SkuRevenues[k] /\ SkuRevenues[k] > 0

\* SKUs of different revenues, whose coefficient is above 0
C16_WitnessUnequal ==
    /\ SkuPerformanceReturned
    /\ ~FracEq(result.value.gini_coefficient, 0)

MonthlyReturned ==
    /\ analyzer = "Enhanced"
    /\ op = "get_monthly_analysis"
    /\ result.raised = "none"
    /\ DeliveredIdx # {}

\* The success_rating of the months of a monthly table with every one of the
\* four signals min-max normalized across the months
MinMaxRatings(rows) ==
    WeightedRating(MinMaxNorm(RevenueSignal(rows)), MinMaxNorm(VolumeSignal(rows)),
                   DiscountEfficiency_MinMax(rows), MinMaxNorm(TurnoverSignal(rows)))

\* C17: the success_rating of each month get_monthly_analysis returns is
\* 40 R + 30 V + 20 D + 10 T, each of the four signals (revenue, order count
\* x average order value, inverse discount rate, item turnover) being
\* (x - min) / (max - min + epsilon) over the months of the table.
C17_RatingOfFourMinMaxSignals ==
    MonthlyReturned =>
        \A i \in DOMAIN result.value.rows :
            result.value.rows[i].success_rating = MinMaxRatings(result.value.rows)[i]

\* C18: every success_rating get_monthly_analysis returns is within [0, 100].
C18_RatingWithin0And100 ==
    MonthlyReturned =>
        \A i \in DOMAIN result.value.rows :
            /\ FracGe(result.value.rows[i].success_rating, 0)
            /\ FracLe(result.value.rows[i].success_rating, 100)

\* The calendar months in which a delivered record was accepted
DeliveredMonths ==
    {(df.rows[i].accepted.v \div TicksPerDay) \div DaysPerMonth :
        i \in {j \in DeliveredIdx : ~df.rows[j].accepted.null}}

\* The months of a sequence of monthly rows
MonthsOf(rows) == [i \in DOMAIN rows |-> rows[i].month_year]

\* C19: get_monthly_analysis returns one row for each calendar month in
\* which a delivered record was accepted and no other, in strictly ascending
\* order of the months whatever the ratings; the ranking the monthly tab
\* makes of it is by success_rating descending and has the same months.
C19_MonthsChronological ==
    /\ MonthlyReturned =>
          /\ Range(MonthsOf(result.value.rows)) = DeliveredMonths
          /\ \A i \in 1..(Len(result.value.rows) - 1) :
                result.value.rows[i].month_year < result.value.rows[i + 1].month_year
    /\ (analyzer = "Enhanced" /\ op = "monthly_tab" /\ result.raised = "none"
           /\ DeliveredIdx # {}) =>
          LET chrono == result.value.monthly_analysis
              ranked == result.value.monthly_analysis_rating
          IN /\ Range(MonthsOf(chrono)) = DeliveredMonths
             /\ \A i \in 1..(Len(chrono) - 1) : chrono[i].month_year < chrono[i + 1].month_year
             /\ Range(MonthsOf(ranked)) = DeliveredMonths
             /\ Len(ranked) = Len(chrono)
             /\ \A i \in 1..(Len(ranked) - 1) :
                   ~FracLess(ranked[i].success_rating, ranked[i + 1].success_rating)

\* A later month outranks an earlier one: the two orders differ
C19_Witness ==
    /\ analyzer = "Enhanced" /\ op = "monthly_tab" /\ result.raised = "none"
    /\ Len(result.value.monthly_analysis) >= 2
    /\ MonthsOf(result.value.monthly_analysis_rating) # MonthsOf(result.value.monthly_analysis)

\* The records with a weight, and those of them above or at most a limit
\* given in tenths of a kilogram
Weighed == {i \in DOMAIN df.rows : ~df.rows[i].weight.null}
HeavierThan(w) == {i \in Weighed : df.rows[i].weight.v > w}
AtMost(w) == {i \in Weighed : df.rows[i].weight.v <= w}

WeightLogisticsReturned ==
    /\ analyzer = "Enhanced"
    /\ op = "analyze_weight_logistics"
    /\ result.raised = "none"
    /\ Weighed # {}

\* C20: analyze_weight_logistics counts as heavy the records with a weight
\* above 2.0 kg and as light those with a weight of at most 0.5 kg, among the
\* records with a weight alone; the two counts together are at most the
\* number of records with a weight, and each percentage is 100 x its count /
\* the number of records with a weight.
C20_HeavyLightAmongWeighed ==
    WeightLogisticsReturned =>
        LET v == result.value
        IN /\ v.heavy_orders_count = Cardinality(HeavierThan(20))
           /\ v.light_orders_count = Cardinality(AtMost(5))
           /\ HeavierThan(20) \cap AtMost(5) = {}
           /\ v.heavy_orders_count + v.light_orders_count <= Cardinality(Weighed)
           /\ IsFinite(v.heavy_orders_percentage)
           /\ v.heavy_orders_percentage.n * Cardinality(Weighed)
                = 100 * Cardinality(HeavierThan(20)) * v.heavy_orders_percentage.d
           /\ IsFinite(v.light_orders_percentage)
           /\ v.light_orders_percentage.n * Cardinality(Weighed)
                = 100 * Cardinality(AtMost(5)) * v.light_orders_percentage.d

\* A record of 2.0 kg, in neither bucket, next to a light record and a record
\* without a weight
C20_Witness ==
    /\ WeightLogisticsReturned
    /\ \E i \in Weighed : df.rows[i].weight.v = 20
    /\ AtMost(5) # {}
    /\ Cardinality(Weighed) < Len(df.rows)
    /\ result.value.heavy_orders_count + result.value.light_orders_count
         < Cardinality(Weighed)

\* The metrics operations of OrderAnalyzer
ORDER_METRICS_OPERATIONS ==
    {"calculate_delivery_metrics", "get_daily_orders", "get_delivery_delays"}

\* What a metrics operation of either analyzer gives on a record set
OperationResult(name, a, d) ==
    CASE name = "get_basic_metrics" -> get_basic_metrics(d)
      [] name = "analyze_discounts" -> analyze_discounts(d)
      [] name = "analyze_product_categories" -> analyze_product_categories(d)
      [] name = "analyze_product_by_sku" -> analyze_product_by_sku(d)
      [] name = "get_sku_abc_analysis" -> get_sku_abc_analysis(d)
      [] name = "get_sku_performance_metrics" -> get_sku_performance_metrics(d)
      [] name = "analyze_delivery_performance" -> analyze_delivery_performance(d)
      [] name = "analyze_weight_logistics" -> analyze_weight_logistics(d)
      [] name = "get_regional_analysis" -> get_regional_analysis(d)
      [] name = "get_time_series_analysis" -> get_time_series_analysis(d)
      [] name = "get_monthly_analysis" -> get_monthly_analysis(d)
      [] name = "calculate_delivery_metrics" -> calculate_delivery_metrics(d)
      [] name = "get_daily_orders" -> get_daily_orders(d)
      [] name = "get_delivery_delays" -> call_get_delivery_delays(d, a)

\* The record set is the one construction made of the loaded dataset, and
\* what the last metrics operation gave is what it gives on that record set
RecordSetAsConstructed ==
    pc = "ready" =>
        /\ df = _prepare_data(analyzer, raw).value
        /\ analyzer = "Enhanced" => original_df = raw
        /\ op \in METRICS_OPERATIONS \cup ORDER_METRICS_OPERATIONS =>
              result = OperationResult(op, args, _prepare_data(analyzer, raw).value)

DeliveredLaterThan(k) ==
    SelectSeq(df.rows,
              LAMBDA r : /\ r.status = DELIVERED
                         /\ ~r.delivered.null
                         /\ r.delivered.v - (r.accepted.v + Days(k)) > 0)

\* The expected lead time of the last call: the one passed, 3 when none was
ExpectedLeadDays == IF args.null THEN 3 ELSE args.v

\* C22: get_delivery_delays called with an expected lead time of k days, or
\* with none and then k = 3, returns exactly the delivered records with
\* delivered_at - (accepted_at + k days) > 0, each with that delay in days.
C22_DelaysForEveryLeadTime ==
    (analyzer = "Order" /\ op = "get_delivery_delays") =>
        /\ result.raised = "none"
        /\ result.value.rows =
              [i \in DOMAIN DeliveredLaterThan(ExpectedLeadDays) |->
                 [order_no |-> DeliveredLaterThan(ExpectedLeadDays)[i].order_no,
                  delay_days |->
                      Frac(DeliveredLaterThan(ExpectedLeadDays)[i].delivered.v
                             - (DeliveredLaterThan(ExpectedLeadDays)[i].accepted.v
                                  + Days(ExpectedLeadDays)),
                           TicksPerDay)]]

\* The delivered records accepted on a day, and the days on which a
\* delivered record was accepted
DeliveredOn(day) ==
    {i \in DeliveredIdx :
        ~df.rows[i].accepted.null /\ df.rows[i].accepted.v \div TicksPerDay = day}
DeliveredDays ==
    {df.rows[i].accepted.v \div TicksPerDay :
        i \in {j \in DeliveredIdx : ~df.rows[j].accepted.null}}

\* The records that are orders: those with an order number
Numbered(S) == {i \in S : ~df.rows[i].order_no.null}

DailySeriesCalled ==
    \/ analyzer = "Enhanced" /\ op = "get_time_series_analysis"
    \/ analyzer = "Order" /\ op = "get_daily_orders"

\* The days and counts of the daily series the last call returned
DailyCounts ==
    {<<result.value.rows[i].date,
       IF op = "get_daily_orders" THEN result.value.rows[i].count
       ELSE result.value.rows[i].orders_count>> : i \in DOMAIN result.value.rows}

\* C23: the daily series of either analyzer (get_time_series_analysis,
\* get_daily_orders) has one row for each day on which a delivered record
\* was accepted and no other, its count being the number of delivered orders
\* accepted that day: records of another status add to no count, and an
\* empty dataset gives an empty series.
C23_DailySeriesOfDeliveredCohort ==
    DailySeriesCalled =>
        /\ result.raised = "none"
        /\ Len(result.value.rows) = Cardinality(DeliveredDays)
        /\ DailyCounts = {<<d, Cardinality(Numbered(DeliveredOn(d)))>> : d \in DeliveredDays}

SkuAggregateReturned ==
    /\ analyzer = "Enhanced"
    /\ op = "analyze_product_by_sku"
    /\ result.raised = "none"
    /\ DeliveredSkus # {}

\* C24: SKUs of exactly equal total revenue are listed in their grouping
\* order, which is the ascending order of the SKUs, in the SKU aggregate and
\* in the categories of the ABC analysis alike, whatever sort the build has.
C24_TiesKeepGroupingOrder ==
    /\ SkuAggregateReturned =>
          \A i, j \in DOMAIN result.value.rows :
              (i < j /\ result.value.rows[i].total_revenue = result.value.rows[j].total_revenue)
                 => result.value.rows[i].key < result.value.rows[j].key
    /\ AbcReturned =>
          \A i, j \in DOMAIN AbcListing :
              (i < j /\ SkuRevenues[AbcListing[i]] = SkuRevenues[AbcListing[j]])
                 => AbcListing[i] < AbcListing[j]

\* A signal that has one and the same value in every month
SameInEveryMonth(xs) == \A i, j \in DOMAIN xs : xs[i] = xs[j]

\* Each month of a signal normalizes to 0
NormalizesToZero(xs) == \A i \in DOMAIN xs : FracEq(MinMaxNorm(xs)[i], 0)

\* C25: in the table get_monthly_analysis returns, a signal (revenue, order
\* count x average order value, item turnover) that has the same value in
\* every month normalizes to 0 in every month, and when a signal is the same
\* in every month, as all are in a table of a single month, every
\* success_rating is a finite number.
C25_ConstantSignalFiniteRating ==
    MonthlyReturned =>
        LET rows == result.value.rows
        IN /\ SameInEveryMonth(RevenueSignal(rows)) => NormalizesToZero(RevenueSignal(rows))
           /\ SameInEveryMonth(VolumeSignal(rows)) => NormalizesToZero(VolumeSignal(rows))
           /\ SameInEveryMonth(TurnoverSignal(rows)) => NormalizesToZero(TurnoverSignal(rows))
           /\ (\/ SameInEveryMonth(RevenueSignal(rows))
               \/ SameInEveryMonth(VolumeSignal(rows))
               \/ SameInEveryMonth(TurnoverSignal(rows)))
              => \A i \in DOMAIN rows : IsFinite(rows[i].success_rating)

\* The differences delivered_at - accepted_at, in ticks, of the delivered
\* records that lie within [0, 30] days, in the order of the records
DeliveryTicksInWindow ==
    LET RECURSIVE Keep(_)
        Keep(s) ==
            IF s = <<>> THEN <<>>
            ELSE IF 0 <= Head(s) /\ Head(s) <= Days(MAX_DELIVERY_DAYS)
                 THEN <<Head(s)>> \o Keep(Tail(s))
                 ELSE Keep(Tail(s))
    IN Keep(TickDiffs(WithStatus(df.rows, DELIVERED), "accepted", "delivered"))

\* Some delivered record has a delivered_at that is a timestamp
SomeUsableDeliveredAt == \E i \in DeliveredIdx : ~df.rows[i].delivered.null

\* C26: calculate_delivery_metrics of OrderAnalyzer computes avg_delivery_time
\* and median_delivery_time over the differences delivered_at - accepted_at
\* of the delivered records that lie within [0, 30] days only, so both lie
\* in [0, 30], and both are 0 when no delivered record has a usable
\* delivered_at.
C26_DeliveryTimesWithinWindow ==
    (analyzer = "Order" /\ op = "calculate_delivery_metrics" /\ result.raised = "none") =>
        /\ FracGe(result.value.avg_delivery_time, 0)
        /\ FracLe(result.value.avg_delivery_time, MAX_DELIVERY_DAYS)
        /\ FracGe(result.value.median_delivery_time, 0)
        /\ FracLe(result.value.median_delivery_time, MAX_DELIVERY_DAYS)
        /\ DeliveryTicksInWindow # <<>> =>
              /\ result.value.avg_delivery_time = MeanDays(DeliveryTicksInWindow)
              /\ result.value.median_delivery_time = MedianDays(DeliveryTicksInWindow)
        /\ ~SomeUsableDeliveredAt =>
              /\ FracEq(result.value.avg_delivery_time, 0)
              /\ FracEq(result.value.median_delivery_time, 0)

\* The filter tab built an OrderAnalyzer over a non-empty selection of the
\* records of the session's analyzer
SliceAnalyzed ==
    /\ analyzer = "Order"
    /\ op = "filter_tab"
    /\ result.raised = "none"
    /\ ~result.value.warning

IdxWithStatus(s) == {i \in DOMAIN df.rows : df.rows[i].status = s}

\* C28: the delivered, cancelled and in-delivery orders get_basic_metrics
\* counts are three pairwise disjoint sets of records, so
\* delivered_orders + cancelled_orders + in_delivery <= total_orders and
\* delivery_rate + cancellation_rate <= 100.
C28_CohortsDisjoint ==
    BasicMetricsReturned =>
        LET m == result.value
        IN /\ m.delivered_orders = Cardinality(IdxWithStatus(DELIVERED))
           /\ m.cancelled_orders = Cardinality(IdxWithStatus(CANCELLED))
           /\ m.in_delivery = Cardinality(IdxWithStatus(IN_DELIVERY))
           /\ m.delivered_orders + m.cancelled_orders + m.in_delivery <= m.total_orders
           /\ IsFinite(m.delivery_rate) /\ IsFinite(m.cancellation_rate)
           /\ m.delivery_rate.n * m.cancellation_rate.d
                + m.cancellation_rate.n * m.delivery_rate.d
              <= 100 * m.delivery_rate.d * m.cancellation_rate.d

\* Metrics of a dataset with a delivered, a cancelled and an in-delivery order
C28_Witness ==
    /\ BasicMetricsReturned
    /\ result.value.delivered_orders > 0
    /\ result.value.cancelled_orders > 0
    /\ result.value.in_delivery > 0

\* The delivered records that have an acceptance time and an order number
CountedRecords == Numbered({i \in DeliveredIdx : ~df.rows[i].accepted.null})

\* The period of a record's acceptance the last call grouped by: the day for
\* the daily series, the month for the monthly table
PeriodOf(i) ==
    IF op = "get_monthly_analysis" THEN AcceptedMonth(df.rows[i]).v
    ELSE AcceptedDate(df.rows[i]).v

\* The period a row of the returned table stands for
PeriodOfRow(row) == IF op = "get_monthly_analysis" THEN row.month_year ELSE row.date

GroupedSeriesReturned ==
    /\ analyzer = "Enhanced"
    /\ op \in {"get_time_series_analysis", "get_monthly_analysis"}
    /\ result.raised = "none"
    /\ DeliveredIdx # {}

\* C29: the orders_count of the months of get_monthly_analysis, and of the
\* days of get_time_series_analysis, sum to the number of delivered records
\* with an acceptance time and an order number; every period has one row,
\* which counts those of these records accepted in it, so none is counted
\* twice and no record that is not delivered is counted.
C29_GroupingConservesDelivered ==
    GroupedSeriesReturned =>
        LET rows == result.value.rows
        IN /\ SumSeq([i \in DOMAIN rows |-> rows[i].orders_count])
                = Cardinality(CountedRecords)
           /\ \A i, j \in DOMAIN rows :
                  PeriodOfRow(rows[i]) = PeriodOfRow(rows[j]) => i = j
           /\ \A i \in DOMAIN rows :
                  rows[i].orders_count =
                     Cardinality({k \in CountedRecords : PeriodOf(k) = PeriodOfRow(rows[i])})

\* A table of two periods returned for a dataset that also has an order that
\* is not delivered, a delivered record without an order number or a
\* delivered record without an acceptance time
C29_Witness ==
    /\ GroupedSeriesReturned
    /\ Len(result.value.rows) = 2
    /\ Cardinality(CountedRecords) < Len(df.rows)
    /\ Cardinality(CountedRecords) >= 2

\* The SKUs that hold more than 80 percent of the total revenue
HoldMoreThanLimit ==
    {k \in DeliveredSkus :
        TotalSkuRevenue > 0 /\ SkuRevenues[k] * 100 > ABC_A_LIMIT * TotalSkuRevenue}

\* The SKUs whose revenue_share, the share rounded to two decimals, is above 80
ShareAboveLimit ==
    {k \in DeliveredSkus :
        TotalSkuRevenue > 0 /\ ShareHundredths(k) > ABC_A_LIMIT * PERCENT_SCALE}

\* The ABC analysis has no SKU in A
NoCategoryA == result.value.category_A = <<>> /\ FracEq(result.value.revenue_share_A, 0)

\* The one SKU of a dataset with a single SKU is in C
SingleSkuInC ==
    Cardinality(DeliveredSkus) = 1 =>
        /\ Range(result.value.category_C) = DeliveredSkus
        /\ result.value.category_A = <<>>
        /\ result.value.category_B = <<>>

\* C30: in get_sku_abc_analysis a SKU that holds more than 80 percent of the
\* total revenue is never in A: with such a SKU category_A is empty and
\* revenue_share_A is 0, and the SKU of a dataset with a single SKU is in C.
C30_DominantSkuNeverA ==
    AbcReturned =>
        /\ HoldMoreThanLimit # {} => NoCategoryA
        /\ SingleSkuInC

\* C30, amended: a SKU whose revenue_share, its share of the total revenue
\* rounded to two decimals, is above 80 is never in A: with such a SKU
\* category_A is empty and revenue_share_A is 0, and the SKU of a dataset with
\* a single SKU is in C.
C30_RoundedShareAboveLimitNeverA ==
    AbcReturned =>
        /\ ShareAboveLimit # {} => NoCategoryA
        /\ SingleSkuInC

\* The analysis of two SKUs one of which has a revenue_share above 80
C30_Witness ==
    /\ AbcReturned
    /\ Cardinality(DeliveredSkus) = 2
    /\ ShareAboveLimit # {}

====
